---- MODULE Spec2Model ----
(***************************************************************************)
(* A model of the byte_coding derive macros (byte_coding_derive) and of    *)
(* the code they generate.                                                 *)
(*                                                                         *)
(* A u128 is modelled by its 16 little-endian bytes, so that narrowing     *)
(* (try_from), truncation (as u16), wrapping_add and to_le_bytes are the   *)
(* operations of the source and keep their width.                          *)
(***************************************************************************)
EXTENDS Integers, Naturals, Sequences, FiniteSets, TLC

VARIABLES
    \* ---- union derivation (derive(Encodable) / derive(Decodable) on an enum)
    enum_attr,      \* the merged ByteCodingAttr of the enum
    variants,       \* the enum's variants, in declaration order
    enc_enum,       \* result of encoding::generate_enum_code ("pending" before)
    dec_enum,       \* result of decoding::generate_enum_code ("pending" before)
    \* ---- record derivation and the generated encode_to_buf / decode_from_buf
    struct_kind,    \* "named" | "unnamed"
    struct_fields,  \* the struct's fields, in declaration order
    struct_attr,    \* the merged ByteCodingAttr of the struct (hooks)
    enc_struct,     \* the code generated by encoding() for the struct (None before)
    dec_struct,     \* the code generated by decoding() for the struct (None before)
    self_value,     \* the value being encoded: one number per declared field
    buf,            \* the caller's Vec<u8> after encode_to_buf
    enc_calls,      \* the calls the generated encode_to_buf made, in order
    dec_input,      \* the slice handed to decode_from_buf
    dec_result,     \* what decode_from_buf returned
    dec_calls,      \* the calls the generated decode_from_buf made, in order
    pc,             \* position of the run
    \* ---- the generated decode_from_buf of a struct, statement by statement
    post_dec_fn,    \* the function post_dec_func names
    cur_buffer,     \* the `mut buffer` binding
    cur_env,        \* the variables bound by the `let` statements so far
    cur_stmt,       \* index of the next `let` statement of the body
    cur_decoded_res, \* `decoded_res` (None before the constructor ran)
    \* ---- encode_to_buf / decode_from_buf of a union value
    payloads,       \* per variant, its payload fields in declaration order
    union_value,    \* the value: a variant and the values of its payload fields
    \* ---- the wire primitives (String, [bool; 8])
    prim_value,     \* the value being encoded
    bool_arr_optimization, \* the cargo feature of that name
    panicked,       \* TRUE when the decode panicked instead of returning
    \* ---- attribute resolution
    attr_kind,      \* "type" | "field" | "variant": what the blocks annotate
    attr_blocks,    \* the #[byte_coding(...)] blocks, in source order
    data_kind,      \* "enum" | "struct": the shape of the annotated type
    attr_result,    \* result of from_data / parse_attributes (None before)
    enc_resolved,   \* outcome of encoding() up to the body ("pending" before)
    dec_resolved,   \* outcome of decoding() up to the body ("pending" before)
    \* ---- encode_to_buf into a caller's buffer, decode_from_buf of a chain
    init_buf,       \* the caller's Vec<u8> before encode_to_buf
    post_enc_fn,    \* the function post_enc_func names
    suffix,         \* the bytes that follow the encoding in the decoded slice
    \* ---- the Coder
    coder_buffer,   \* Coder::buffer
    decode_index,   \* Coder::decode_index
    encoded,        \* the objects encoded so far, in order
    decoded,        \* the objects the successful decodes returned, in order
    last_call,      \* the last call on the coder and what it returned
    n_calls,        \* number of calls made on the coder
    fifo_pre        \* TRUE while the coder was made by new(), never reset and
                    \* every decode asked for the type of the next object

vars == <<enum_attr, variants, enc_enum, dec_enum, struct_kind, struct_fields,
          struct_attr, enc_struct, dec_struct, self_value, buf, enc_calls, dec_input, dec_result,
          dec_calls, pc, post_dec_fn, cur_buffer, cur_env, cur_stmt, cur_decoded_res,
          payloads, union_value, prim_value, bool_arr_optimization, panicked,
          attr_kind, attr_blocks, data_kind, attr_result, enc_resolved, dec_resolved,
          init_buf, post_enc_fn, suffix,
          coder_buffer, decode_index, encoded, decoded, last_call, n_calls, fifo_pre>>

enum_vars == <<enum_attr, variants, enc_enum, dec_enum>>
struct_vars == <<struct_kind, struct_fields, struct_attr, enc_struct, dec_struct,
                 self_value, buf,
                 enc_calls, dec_input, dec_result, dec_calls>>
step_vars == <<post_dec_fn, cur_buffer, cur_env, cur_stmt, cur_decoded_res>>
union_run_vars == <<payloads, union_value>>
prim_vars == <<prim_value, bool_arr_optimization, panicked>>
attr_vars == <<attr_kind, attr_blocks, data_kind, attr_result, enc_resolved, dec_resolved>>
chain_vars == <<init_buf, post_enc_fn, suffix>>
coder_vars == <<coder_buffer, decode_index, encoded, decoded, last_call, n_calls, fifo_pre>>

(***************************************************************************)
(* Bounds of the model.                                                    *)
(***************************************************************************)
MaxVariants == 3
MaxFields == 2
MaxOrderFields == 4

(***************************************************************************)
(* Option<T>: None is the empty sequence, Some(x) is <<x>>.                *)
(***************************************************************************)
None == <<>>
Some(x) == <<x>>
IsSome(o) == o # <<>>
Unwrap(o) == o[1]

(***************************************************************************)
(* u128 as 16 little-endian bytes.                                         *)
(***************************************************************************)
U128Bytes == 1..16

\* the u128 whose low two bytes are lo and hi, e.g. U128Small(10, 0) = 10
U128Small(lo, hi) == [i \in U128Bytes |-> IF i = 1 THEN lo ELSE IF i = 2 THEN hi ELSE 0]
\* 2^(8*k): a single 1 in byte k+1
U128Pow(k) == [i \in U128Bytes |-> IF i = k + 1 THEN 1 ELSE 0]
\* u128::MAX
U128Max == [i \in U128Bytes |-> 255]

\* u128::wrapping_add(n, 1)
wrapping_add_1(n) ==
    LET k == IF \E j \in U128Bytes : n[j] # 255
             THEN CHOOSE j \in U128Bytes : n[j] # 255 /\ \A l \in 1..(j-1) : n[l] = 255
             ELSE 17
    IN  [i \in U128Bytes |-> IF i < k THEN 0 ELSE IF i = k THEN n[i] + 1 ELSE n[i]]

\* T::try_from(value).is_ok() for an unsigned T of w bytes
try_from_fits(value, w) == \A i \in U128Bytes : i > w => value[i] = 0

\* the w low bytes of value: value as T, and T::to_le_bytes of the narrowed value
low_bytes(value, w) == SubSeq(value, 1, w)

(***************************************************************************)
(* EnumEncodingType and its width in bytes.                                *)
(***************************************************************************)
EnumEncodingType == {"U8", "U16", "U32", "U64", "U128"}

type_bytes(tp) ==
    CASE tp = "U8" -> 1
      [] tp = "U16" -> 2
      [] tp = "U32" -> 4
      [] tp = "U64" -> 8
      [] tp = "U128" -> 16

\* enum_options.is_some(): a block sets enum_options only through encoding_type
\* or inferred_values
enum_options_is_some(attr) == IsSome(attr.encoding_type) \/ attr.inferred_values

\* toplevel_attr.enum_options.is_some() && ...unwrap().inferred_values
inferred_values_of(attr) == enum_options_is_some(attr) /\ attr.inferred_values

\* the width the generated code reads and writes the tag with
tag_bytes(attr) ==
    IF IsSome(attr.encoding_type) THEN type_bytes(Unwrap(attr.encoding_type)) ELSE 2

(***************************************************************************)
(* Diagnostics.                                                            *)
(***************************************************************************)
ErrNoValue == "No discriminant or value provided"
ErrDuplicate == "2 or more variants share the same value."
ErrUnsupported == "Unsupported expression. Integer literals only."
ErrTooLargeU16 == "Value too large for u16"
ErrTooLargeType == "Value too large for specified type"
NoErr == ""

(***************************************************************************)
(* parsing.rs                                                              *)
(***************************************************************************)
\* expr_to_u128: Ok(n) for an integer literal, Err otherwise
expr_to_u128(expr) ==
    IF expr.kind = "int"
    THEN [err |-> NoErr, value |-> expr.v]
    ELSE [err |-> ErrUnsupported, value |-> U128Small(0, 0)]

\* a variant of parse_enum_variant_value that prefers the discriminant to the
\* explicit value
parse_enum_variant_value_disc_first(default_value, variant, found_values) ==
    IF ~IsSome(variant.discriminant) /\ ~IsSome(variant.value) /\ ~IsSome(default_value)
    THEN [err |-> ErrNoValue, value |-> U128Small(0, 0), found_values |-> found_values]
    ELSE
      LET pick == IF IsSome(variant.discriminant)
                  THEN expr_to_u128(Unwrap(variant.discriminant))
                  ELSE IF IsSome(variant.value)
                  THEN [err |-> NoErr, value |-> Unwrap(variant.value)]
                  ELSE [err |-> NoErr, value |-> Unwrap(default_value)]
      IN  IF pick.err # NoErr
          THEN [err |-> pick.err, value |-> pick.value, found_values |-> found_values]
          ELSE IF pick.value \in found_values
          THEN [err |-> ErrDuplicate, value |-> pick.value, found_values |-> found_values]
          ELSE [err |-> NoErr, value |-> pick.value,
                found_values |-> found_values \cup {pick.value}]

\* parse_enum_variant_value(default_value, variant, variant_attr, found_values);
\* variant.value is variant_attr.value
parse_enum_variant_value(default_value, variant, found_values) ==
    IF ~IsSome(variant.discriminant) /\ ~IsSome(variant.value) /\ ~IsSome(default_value)
    THEN [err |-> ErrNoValue, value |-> U128Small(0, 0), found_values |-> found_values]
    ELSE
      LET pick == IF IsSome(variant.value)
                  THEN [err |-> NoErr, value |-> Unwrap(variant.value)]
                  ELSE IF IsSome(variant.discriminant)
                  THEN expr_to_u128(Unwrap(variant.discriminant))
                  ELSE [err |-> NoErr, value |-> Unwrap(default_value)]
      IN  IF pick.err # NoErr
          THEN [err |-> pick.err, value |-> pick.value, found_values |-> found_values]
          ELSE IF pick.value \in found_values
          THEN [err |-> ErrDuplicate, value |-> pick.value, found_values |-> found_values]
          ELSE [err |-> NoErr, value |-> pick.value,
                found_values |-> found_values \cup {pick.value}]

\* u128_to_int_tok_stream::<T>: the literal of type T, or "Value too large"
u128_to_int_tok_stream(value, w) ==
    IF try_from_fits(value, w)
    THEN [err |-> NoErr, tok |-> low_bytes(value, w)]
    ELSE [err |-> ErrTooLargeU16, tok |-> <<>>]

(***************************************************************************)
(* encoding.rs: generate_enum_code                                         *)
(***************************************************************************)
\* the candidate inferred value computed at the top of each iteration
encoding_candidate(inferred_values, last_value) ==
    IF inferred_values
    THEN Some(IF IsSome(last_value) THEN wrapping_add_1(Unwrap(last_value))
              ELSE U128Small(0, 0))
    ELSE None

\* a variant of encoding_reseed that keeps the candidate
encoding_reseed_keep(last_value, value) == last_value

\* last_value = last_value.map(|_| value)
encoding_reseed(last_value, value) ==
    IF IsSome(last_value) THEN Some(value) ELSE None

\* encode_literal::<T>
encode_literal(value, w) ==
    IF try_from_fits(value, w)
    THEN [err |-> NoErr, tok |-> low_bytes(value, w)]
    ELSE [err |-> ErrTooLargeType, tok |-> <<>>]

\* the tag literal of one variant: the bytes value.encode_to_buf(buf) writes
encoding_literal(attr, value) ==
    IF ~try_from_fits(value, 2)
    THEN [err |-> ErrTooLargeU16, tok |-> <<>>]
    ELSE IF enum_options_is_some(attr) /\ IsSome(attr.encoding_type)
    THEN IF Unwrap(attr.encoding_type) = "U128"
         THEN [err |-> NoErr, tok |-> low_bytes(value, 16)]
         ELSE encode_literal(value, type_bytes(Unwrap(attr.encoding_type)))
    ELSE [err |-> NoErr, tok |-> low_bytes(value, 2)]

Pending == [err |-> "pending", tags |-> <<>>]

\* Err(diagnostic), or Ok with the tag literal of every match branch in order
encoding_generate_enum_code(attr, vs) ==
    LET inferred_values == inferred_values_of(attr)
        RECURSIVE loop(_, _, _, _)
        loop(i, last_value, found_values, tags) ==
            IF i > Len(vs)
            THEN [err |-> NoErr, tags |-> tags]
            ELSE
              LET cand == encoding_candidate(inferred_values, last_value)
                  r == parse_enum_variant_value(cand, vs[i], found_values)
                  lit == encoding_literal(attr, r.value)
              IN  IF r.err # NoErr
                  THEN [err |-> r.err, tags |-> <<>>]
                  ELSE IF lit.err # NoErr
                  THEN [err |-> lit.err, tags |-> <<>>]
                  ELSE loop(i + 1, encoding_reseed(cand, r.value), r.found_values,
                            Append(tags, lit.tok))
    IN  loop(1, None, {}, <<>>)

(***************************************************************************)
(* decoding.rs: generate_enum_code                                         *)
(***************************************************************************)
\* a variant of decoding_candidate that starts the sequence at 1
decoding_candidate_from_one(inferred_values, last_value) ==
    IF inferred_values
    THEN Some(IF IsSome(last_value) THEN wrapping_add_1(Unwrap(last_value))
              ELSE U128Small(1, 0))
    ELSE None

decoding_candidate(inferred_values, last_value) ==
    IF inferred_values
    THEN Some(IF IsSome(last_value) THEN wrapping_add_1(Unwrap(last_value))
              ELSE U128Small(0, 0))
    ELSE None

decoding_reseed(last_value, value) ==
    IF IsSome(last_value) THEN Some(value) ELSE None

\* the pattern of one match branch, at the width of variant_value
decoding_pattern(attr, value) ==
    IF enum_options_is_some(attr) /\ IsSome(attr.encoding_type)
    THEN u128_to_int_tok_stream(value, type_bytes(Unwrap(attr.encoding_type)))
    ELSE [err |-> NoErr, tok |-> low_bytes(value, 2)]    \* value as u16

decoding_generate_enum_code(attr, vs) ==
    LET inferred_values == inferred_values_of(attr)
        RECURSIVE loop(_, _, _, _)
        loop(i, last_value, found_values, tags) ==
            IF i > Len(vs)
            THEN [err |-> NoErr, tags |-> tags]
            ELSE
              LET cand == decoding_candidate(inferred_values, last_value)
                  r == parse_enum_variant_value(cand, vs[i], found_values)
                  pat == decoding_pattern(attr, r.value)
              IN  IF r.err # NoErr
                  THEN [err |-> r.err, tags |-> <<>>]
                  ELSE IF pat.err # NoErr
                  THEN [err |-> pat.err, tags |-> <<>>]
                  ELSE loop(i + 1, decoding_reseed(cand, r.value), r.found_values,
                            Append(tags, pat.tok))
    IN  loop(1, None, {}, <<>>)

(***************************************************************************)
(* byte_coding_attr.rs: the field orderer                                  *)
(***************************************************************************)
\* a variant of orderno_cmp that puts the fields without order number first
orderno_cmp_none_first(self, other) ==
    IF IsSome(self.order_no)
    THEN IF IsSome(other.order_no)
         THEN IF Unwrap(self.order_no) < Unwrap(other.order_no) THEN "Less"
              ELSE IF Unwrap(self.order_no) = Unwrap(other.order_no) THEN "Equal"
              ELSE "Greater"
         ELSE "Greater"
    ELSE IF IsSome(other.order_no) THEN "Less"
    ELSE "Equal"

\* ByteCodingStructFieldAttr::orderno_cmp
orderno_cmp(self, other) ==
    IF IsSome(self.order_no)
    THEN IF IsSome(other.order_no)
         THEN IF Unwrap(self.order_no) < Unwrap(other.order_no) THEN "Less"
              ELSE IF Unwrap(self.order_no) = Unwrap(other.order_no) THEN "Equal"
              ELSE "Greater"
         ELSE "Less"
    ELSE IF IsSome(other.order_no) THEN "Greater"
    ELSE "Equal"

\* a variant of sort_by_orderno that is not stable: an element goes before
\* the elements it is equal to
sort_by_orderno_ties_reversed(fields, idx) ==
    LET RECURSIVE insert(_, _)
        insert(sorted, x) ==
            IF sorted = <<>> THEN <<x>>
            ELSE IF orderno_cmp(fields[x], fields[sorted[Len(sorted)]]) # "Greater"
                 THEN Append(insert(SubSeq(sorted, 1, Len(sorted) - 1), x),
                             sorted[Len(sorted)])
                 ELSE Append(sorted, x)
        RECURSIVE run(_, _)
        run(sorted, k) ==
            IF k > Len(idx) THEN sorted ELSE run(insert(sorted, idx[k]), k + 1)
    IN  run(<<>>, 1)

\* Vec::sort_by(|a, b| a.orderno_cmp(b)) over the pairs pushed for the fields
\* idx (indexes into fields): a stable sort, here by insertion, each element
\* going after the last element it is not less than
sort_by_orderno(fields, idx) ==
    LET RECURSIVE insert(_, _)
        insert(sorted, x) ==
            IF sorted = <<>> THEN <<x>>
            ELSE IF orderno_cmp(fields[x], fields[sorted[Len(sorted)]]) = "Less"
                 THEN Append(insert(SubSeq(sorted, 1, Len(sorted) - 1), x),
                             sorted[Len(sorted)])
                 ELSE Append(sorted, x)
        RECURSIVE run(_, _)
        run(sorted, k) ==
            IF k > Len(idx) THEN sorted ELSE run(insert(sorted, idx[k]), k + 1)
    IN  run(<<>>, 1)

\* the declaration indexes of the fields that satisfy keep, in declaration order
RECURSIVE field_indexes(_, _, _)
field_indexes(fields, k, skip_ignored) ==
    IF k > Len(fields) THEN <<>>
    ELSE IF skip_ignored /\ fields[k].ignore
         THEN field_indexes(fields, k + 1, skip_ignored)
         ELSE <<k>> \o field_indexes(fields, k + 1, skip_ignored)

(***************************************************************************)
(* encoding.rs: the generated body of a struct.  A body is the sequence of *)
(* `data.<field>.encode_to_buf(buf);` statements, each named by the        *)
(* declaration index of its field.                                         *)
(***************************************************************************)
encoding_generate_named_struct_fields_code(fields) ==
    sort_by_orderno(fields, field_indexes(fields, 1, TRUE))

encoding_generate_unnamed_struct_fields_code(fields) ==
    sort_by_orderno(fields, field_indexes(fields, 1, TRUE))

(***************************************************************************)
(* decoding.rs: the generated body of a struct: the `let` statements in    *)
(* sorted order, and the constructor.  A statement binds the variable of   *)
(* field `bind`, either to Default::default() (ignore) or to a value       *)
(* decoded as type ty; ctor[k] is the variable that initialises the k-th   *)
(* declared field.                                                         *)
(***************************************************************************)
\* Self { a, b, .. }: every field is initialised from the variable of its
\* own name, which has the field's type
decoding_generate_named_struct_fields_code(fields) ==
    LET sorted == sort_by_orderno(fields, field_indexes(fields, 1, FALSE))
    IN  [stmts |-> [k \in 1..Len(sorted) |->
                      [bind |-> sorted[k], ignore |-> fields[sorted[k]].ignore,
                       ty |-> fields[sorted[k]].ty]],
         ctor |-> [k \in 1..Len(fields) |-> k]]

\* Self(_2, _0, ..): the variables are passed positionally in sorted order,
\* so the k-th sorted variable initialises the k-th declared field and its
\* (inferred) type is the type of that field
decoding_generate_unnamed_struct_fields_code(fields) ==
    LET sorted == sort_by_orderno(fields, field_indexes(fields, 1, FALSE))
    IN  [stmts |-> [k \in 1..Len(sorted) |->
                      [bind |-> sorted[k], ignore |-> fields[sorted[k]].ignore,
                       ty |-> fields[k].ty]],
         ctor |-> [k \in 1..Len(fields) |-> sorted[k]]]

(***************************************************************************)
(* encodable.rs / decodable.rs: the primitives the generated code calls.   *)
(* A field is a u8 or a u16.                                               *)
(***************************************************************************)
FieldTypes == {"u8", "u16"}

\* a variant of encode_to_buf_int that replaces the content of the buffer
encode_to_buf_int_overwrites(ty, v, b) ==
    IF ty = "u8" THEN <<v % 256>>
    ELSE <<v % 256, (v \div 256) % 256>>

\* <u8 / u16 as Encodable>::encode_to_buf: buf.extend_from_slice(&self.to_le_bytes())
encode_to_buf_int(ty, v, b) ==
    IF ty = "u8" THEN b \o <<v % 256>>
    ELSE b \o <<v % 256, (v \div 256) % 256>>

\* <u8 / u16 as Decodable>::decode_from_buf
decode_from_buf_int(ty, buffer) ==
    IF ty = "u8"
    THEN IF Len(buffer) < 1 THEN None
         ELSE Some([value |-> buffer[1], rest |-> SubSeq(buffer, 2, Len(buffer))])
    ELSE IF Len(buffer) < 2 THEN None
         ELSE Some([value |-> buffer[1] + 256 * buffer[2],
                    rest |-> SubSeq(buffer, 3, Len(buffer))])

\* Default::default() of u8 and u16
default_int(ty) == 0

(***************************************************************************)
(* tests/derive_test.rs: the hooks of Example2, on records of integers.    *)
(***************************************************************************)
\* pre_enc_func: a copy of the value with its first field replaced
change_example2(v) == IF Len(v) >= 1 THEN [v EXCEPT ![1] = 3] ELSE v
\* post_enc_func: buffer.push(b'h')
append_data_e2(buffer) == Append(buffer, 104)
\* pre_dec_func: strips the trailing b'h', None without it
undo_append_data_e2(buffer) ==
    IF Len(buffer) = 0 \/ buffer[Len(buffer)] # 104 THEN None
    ELSE Some(SubSeq(buffer, 1, Len(buffer) - 1))
\* post_dec_func: replaces the first field of the decoded value
undo_change_example2(v, buffer) ==
    Some([value |-> IF Len(v) >= 1 THEN [v EXCEPT ![1] = 4] ELSE v, rest |-> buffer])

(***************************************************************************)
(* encoding.rs: encoding() and the encode_to_buf it generates for a struct *)
(***************************************************************************)
\* the token stream `#enc_leading #body #enc_post`
encoding(attr, kind, fields) ==
    [enc_leading |-> attr.hooks.pre_enc_func,
     body |-> IF kind = "named"
              THEN encoding_generate_named_struct_fields_code(fields)
              ELSE encoding_generate_unnamed_struct_fields_code(fields),
     enc_post |-> attr.hooks.post_enc_func]

\* data.<field>.encode_to_buf(buf); for every statement of the body
RECURSIVE encode_body(_, _, _, _, _)
encode_body(body, k, fields, data, b) ==
    IF k > Len(body) THEN b
    ELSE encode_body(body, k + 1, fields, data,
                     encode_to_buf_int(fields[body[k]].ty, data[body[k]], b))

\* a variant of encode_to_buf whose body writes self instead of data
encode_to_buf_from_self(code, fields, self, b) ==
    LET b1 == encode_body(code.body, 1, fields, self, b)
        b2 == IF code.enc_post THEN append_data_e2(b1) ELSE b1
    IN  [buf |-> b2,
         calls |-> (IF code.enc_leading THEN <<"pre_enc_func">> ELSE <<>>)
                   \o <<"body">>
                   \o (IF code.enc_post THEN <<"post_enc_func">> ELSE <<>>)]

\* fn encode_to_buf(&self, buf: &mut Vec<u8>) { #enc_leading #body #enc_post }
encode_to_buf(code, fields, self, b) ==
    LET data == IF code.enc_leading THEN change_example2(self) ELSE self
        b1 == encode_body(code.body, 1, fields, data, b)
        b2 == IF code.enc_post THEN append_data_e2(b1) ELSE b1
    IN  [buf |-> b2,
         calls |-> (IF code.enc_leading THEN <<"pre_enc_func">> ELSE <<>>)
                   \o <<"body">>
                   \o (IF code.enc_post THEN <<"post_enc_func">> ELSE <<>>)]

(***************************************************************************)
(* decoding.rs: decoding() and the decode_from_buf it generates            *)
(***************************************************************************)
\* the token stream `#pre_dec_func #body #post_dec_func return Some((res, buffer));`
decoding(attr, kind, fields) ==
    [pre_dec_func |-> attr.hooks.pre_dec_func,
     body |-> IF kind = "named"
              THEN decoding_generate_named_struct_fields_code(fields)
              ELSE decoding_generate_unnamed_struct_fields_code(fields),
     post_dec_func |-> attr.hooks.post_dec_func]

\* the `let` statements of the body: None as soon as a field decoder fails,
\* otherwise the variables (indexed by the field they are named after) and
\* the rest of the buffer
RECURSIVE decode_body(_, _, _, _)
decode_body(stmts, k, env, buffer) ==
    IF k > Len(stmts) THEN Some([env |-> env, rest |-> buffer])
    ELSE IF stmts[k].ignore
    THEN decode_body(stmts, k + 1,
                     [env EXCEPT ![stmts[k].bind] = default_int(stmts[k].ty)], buffer)
    ELSE LET res == decode_from_buf_int(stmts[k].ty, buffer)
         IN  IF ~IsSome(res) THEN None
             ELSE decode_body(stmts, k + 1,
                              [env EXCEPT ![stmts[k].bind] = Unwrap(res).value],
                              Unwrap(res).rest)

\* a variant of decode_from_buf that drops the result of the pre-decode hook
\* (`#f_name (buffer)?;` without the assignment to buffer)
decode_from_buf_drops_pre(code, buffer) ==
    LET pre == IF code.pre_dec_func THEN undo_append_data_e2(buffer) ELSE Some(buffer)
        pre_calls == IF code.pre_dec_func THEN <<"pre_dec_func">> ELSE <<>>
    IN  IF ~IsSome(pre) THEN [result |-> None, calls |-> pre_calls]
        ELSE
          LET n == Len(code.body.ctor)
              body == decode_body(code.body.stmts, 1, [i \in 1..n |-> 0], buffer)
          IN  IF ~IsSome(body)
              THEN [result |-> None, calls |-> pre_calls \o <<"body">>]
              ELSE
                LET decoded_res == [k \in 1..n |-> Unwrap(body).env[code.body.ctor[k]]]
                IN  IF code.post_dec_func
                    THEN [result |-> undo_change_example2(decoded_res, Unwrap(body).rest),
                          calls |-> pre_calls \o <<"body", "post_dec_func">>]
                    ELSE [result |-> Some([value |-> decoded_res,
                                           rest |-> Unwrap(body).rest]),
                          calls |-> pre_calls \o <<"body">>]

\* fn decode_from_buf(mut buffer: &[u8]) -> Option<(Self, &[u8])>
decode_from_buf(code, buffer) ==
    LET pre == IF code.pre_dec_func THEN undo_append_data_e2(buffer) ELSE Some(buffer)
        pre_calls == IF code.pre_dec_func THEN <<"pre_dec_func">> ELSE <<>>
    IN  IF ~IsSome(pre) THEN [result |-> None, calls |-> pre_calls]
        ELSE
          LET n == Len(code.body.ctor)
              body == decode_body(code.body.stmts, 1, [i \in 1..n |-> 0], Unwrap(pre))
          IN  IF ~IsSome(body)
              THEN [result |-> None, calls |-> pre_calls \o <<"body">>]
              ELSE
                LET decoded_res == [k \in 1..n |-> Unwrap(body).env[code.body.ctor[k]]]
                IN  IF code.post_dec_func
                    THEN [result |-> undo_change_example2(decoded_res, Unwrap(body).rest),
                          calls |-> pre_calls \o <<"body", "post_dec_func">>]
                    ELSE [result |-> Some([value |-> decoded_res,
                                           rest |-> Unwrap(body).rest]),
                          calls |-> pre_calls \o <<"body">>]

(***************************************************************************)
(* The union declarations the derivations are applied to.                  *)
(***************************************************************************)
NoHooks == [pre_enc_func |-> FALSE, post_enc_func |-> FALSE,
            pre_dec_func |-> FALSE, post_dec_func |-> FALSE]

\* #[byte_coding(value = ...)] of a variant
ExplicitValues == {U128Small(10, 0), U128Pow(2), U128Max}
\* `= expr` of a variant: an integer literal, or any other expression
Discriminants == {[kind |-> "int", v |-> U128Small(0, 0)],
                  [kind |-> "other", v |-> U128Small(0, 0)]}

Variant == [value : {None} \cup {Some(v) : v \in ExplicitValues},
            discriminant : {None} \cup {Some(d) : d \in Discriminants}]

EnumAttr == [encoding_type : {None} \cup {Some(t) : t \in EnumEncodingType},
             inferred_values : BOOLEAN,
             hooks : {NoHooks}]

\* the variables of the other runs, at rest
EmptySteps ==
    /\ post_dec_fn = "undo_change_example2"
    /\ cur_buffer = <<>>
    /\ cur_env = <<>>
    /\ cur_stmt = 1
    /\ cur_decoded_res = None

EmptyUnionRun ==
    /\ payloads = <<>>
    /\ union_value = None

EmptyPrim ==
    /\ prim_value = None
    /\ bool_arr_optimization = FALSE
    /\ panicked = FALSE

EmptyAttr ==
    /\ attr_kind = "type"
    /\ attr_blocks = <<>>
    /\ data_kind = "struct"
    /\ attr_result = None
    /\ enc_resolved = "pending"
    /\ dec_resolved = "pending"

EmptyChain ==
    /\ init_buf = <<>>
    /\ post_enc_fn = "append_data_e2"
    /\ suffix = <<>>

EmptyCoder ==
    /\ coder_buffer = <<>>
    /\ decode_index = 0
    /\ encoded = <<>>
    /\ decoded = <<>>
    /\ last_call = [op |-> "new", ret |-> None]
    /\ n_calls = 0
    /\ fifo_pre = TRUE

EmptyStruct ==
    /\ struct_kind = "named"
    /\ struct_fields = <<>>
    /\ struct_attr = [encoding_type |-> None, inferred_values |-> FALSE, hooks |-> NoHooks]
    /\ enc_struct = None
    /\ dec_struct = None
    /\ self_value = <<>>
    /\ buf = <<>>
    /\ enc_calls = <<>>
    /\ dec_input = <<>>
    /\ dec_result = None
    /\ dec_calls = <<>>

InitUnion ==
    /\ enum_attr \in EnumAttr
    /\ variants \in UNION {[1..n -> Variant] : n \in 0..MaxVariants}
    /\ enc_enum = Pending
    /\ dec_enum = Pending
    /\ EmptyStruct
    /\ pc = "union"
    /\ EmptySteps /\ EmptyUnionRun /\ EmptyPrim /\ EmptyAttr
    /\ EmptyChain /\ EmptyCoder

\* #[derive(Encodable)] on the enum
EncodableDeriveEnum ==
    /\ pc = "union"
    /\ enc_enum = Pending
    /\ enc_enum' = encoding_generate_enum_code(enum_attr, variants)
    /\ UNCHANGED <<enum_attr, variants, dec_enum, struct_vars, pc,
                   step_vars, union_run_vars, prim_vars, attr_vars, chain_vars, coder_vars>>

\* #[derive(Decodable)] on the enum
DecodableDeriveEnum ==
    /\ pc = "union"
    /\ dec_enum = Pending
    /\ dec_enum' = decoding_generate_enum_code(enum_attr, variants)
    /\ UNCHANGED <<enum_attr, variants, enc_enum, struct_vars, pc,
                   step_vars, union_run_vars, prim_vars, attr_vars, chain_vars, coder_vars>>

NextUnion == EncodableDeriveEnum \/ DecodableDeriveEnum

SpecUnion == InitUnion /\ [][NextUnion]_vars

(***************************************************************************)
(* The record declarations, and one encode followed by one decode of the   *)
(* encoded bytes.                                                          *)
(***************************************************************************)
OrderNos == {None, Some(0), Some(1)}

Field == [order_no : OrderNos, ignore : BOOLEAN, ty : FieldTypes]

Hooks == [pre_enc_func : BOOLEAN, post_enc_func : BOOLEAN,
          pre_dec_func : BOOLEAN, post_dec_func : BOOLEAN]

FieldValues(ty) == IF ty = "u8" THEN {1, 2} ELSE {258, 513}

EmptyUnion ==
    /\ enum_attr = [encoding_type |-> None, inferred_values |-> FALSE, hooks |-> NoHooks]
    /\ variants = <<>>
    /\ enc_enum = Pending
    /\ dec_enum = Pending

InitRecord ==
    /\ EmptyUnion
    /\ struct_kind \in {"named", "unnamed"}
    /\ struct_fields \in UNION {[1..n -> Field] : n \in 0..MaxFields}
    /\ struct_attr \in [encoding_type : {None}, inferred_values : {FALSE}, hooks : Hooks]
    /\ self_value \in {v \in [1..Len(struct_fields) -> UNION {FieldValues(t) : t \in FieldTypes}] :
                          \A i \in 1..Len(struct_fields) :
                              v[i] \in FieldValues(struct_fields[i].ty)}
    /\ enc_struct = None
    /\ dec_struct = None
    /\ buf = <<>>
    /\ enc_calls = <<>>
    /\ dec_input = <<>>
    /\ dec_result = None
    /\ dec_calls = <<>>
    /\ pc = "start"
    /\ EmptySteps /\ EmptyUnionRun /\ EmptyPrim /\ EmptyAttr
    /\ EmptyChain /\ EmptyCoder

\* self_value.encoded(): encode_to_buf into a new Vec
Encode ==
    /\ pc = "start"
    /\ LET r == encode_to_buf(encoding(struct_attr, struct_kind, struct_fields),
                              struct_fields, self_value, <<>>)
       IN  /\ buf' = r.buf
           /\ enc_calls' = r.calls
    /\ pc' = "encoded"
    /\ UNCHANGED <<enum_vars, struct_kind, struct_fields, struct_attr, enc_struct,
                   dec_struct, self_value, dec_input, dec_result, dec_calls,
                   step_vars, union_run_vars, prim_vars, attr_vars, chain_vars, coder_vars>>

\* Decodable::decode_from_buf(&encoded)
Decode ==
    /\ pc = "encoded"
    /\ dec_input' = buf
    /\ LET r == decode_from_buf(decoding(struct_attr, struct_kind, struct_fields), buf)
       IN  /\ dec_result' = r.result
           /\ dec_calls' = r.calls
    /\ pc' = "decoded"
    /\ UNCHANGED <<enum_vars, struct_kind, struct_fields, struct_attr, enc_struct,
                   dec_struct, self_value, buf, enc_calls,
                   step_vars, union_run_vars, prim_vars, attr_vars, chain_vars, coder_vars>>

NextRecord == Encode \/ Decode

SpecRecord == InitRecord /\ [][NextRecord]_vars

(***************************************************************************)
(* The derivations applied to a struct: the field orderer.                 *)
(***************************************************************************)
OrderFieldNos == {None, Some(0), Some(1), Some(2)}

OrderField == [order_no : OrderFieldNos, ignore : BOOLEAN, ty : {"u8"}]

InitStruct ==
    /\ EmptyUnion
    /\ struct_kind \in {"named", "unnamed"}
    /\ struct_fields \in UNION {[1..n -> OrderField] : n \in 0..MaxOrderFields}
    /\ struct_attr = [encoding_type |-> None, inferred_values |-> FALSE, hooks |-> NoHooks]
    /\ enc_struct = None
    /\ dec_struct = None
    /\ self_value = <<>>
    /\ buf = <<>>
    /\ enc_calls = <<>>
    /\ dec_input = <<>>
    /\ dec_result = None
    /\ dec_calls = <<>>
    /\ pc = "struct"
    /\ EmptySteps /\ EmptyUnionRun /\ EmptyPrim /\ EmptyAttr
    /\ EmptyChain /\ EmptyCoder

\* #[derive(Encodable)] on the struct
EncodableDeriveStruct ==
    /\ pc = "struct"
    /\ enc_struct = None
    /\ enc_struct' = Some(encoding(struct_attr, struct_kind, struct_fields))
    /\ UNCHANGED <<enum_vars, struct_kind, struct_fields, struct_attr, dec_struct,
                   self_value, buf, enc_calls, dec_input, dec_result, dec_calls, pc,
                   step_vars, union_run_vars, prim_vars, attr_vars, chain_vars, coder_vars>>

\* #[derive(Decodable)] on the struct
DecodableDeriveStruct ==
    /\ pc = "struct"
    /\ dec_struct = None
    /\ dec_struct' = Some(decoding(struct_attr, struct_kind, struct_fields))
    /\ UNCHANGED <<enum_vars, struct_kind, struct_fields, struct_attr, enc_struct,
                   self_value, buf, enc_calls, dec_input, dec_result, dec_calls, pc,
                   step_vars, union_run_vars, prim_vars, attr_vars, chain_vars, coder_vars>>

NextStruct == EncodableDeriveStruct \/ DecodableDeriveStruct

SpecStruct == InitStruct /\ [][NextStruct]_vars

(***************************************************************************)
(* The generated decode_from_buf of a struct, one statement at a time:     *)
(*     #pre_dec_func  #body  #post_dec_func  return Some((res, buffer));   *)
(* Every `?` returns None from the function.                               *)
(***************************************************************************)
MaxStepFields == 2

\* the functions post_dec_func can name: fn(T, &[u8]) -> Option<(T, &[u8])>
PostDecFuncs == {"undo_change_example2", "returns_none"}

post_dec_func_call(f, v, buffer) ==
    IF f = "undo_change_example2" THEN undo_change_example2(v, buffer) ELSE None

StepField == [order_no : {None, Some(0)}, ignore : BOOLEAN, ty : FieldTypes]

\* the slices handed to decode_from_buf
StepInputs == {<<>>, <<104>>, <<1>>, <<1, 104>>, <<1, 2>>, <<1, 2, 104>>,
               <<1, 2, 3>>, <<1, 2, 3, 104>>, <<1, 2, 3, 4, 104>>}

\* the code decoding() generated for the struct
step_code == decoding(struct_attr, struct_kind, struct_fields)

\* a variant of `?` that goes on after a None
question_mark_goes_on(res, next) == next

\* `expr?`: the position after the statement, "none" when the function
\* returned None
question_mark(res, next) == IF IsSome(res) THEN next ELSE "none"

\* one executed statement and whether its call returned a value
Call(op, field, res) == [op |-> op, field |-> field, ok |-> IsSome(res)]

InitSteps ==
    /\ EmptyUnion
    /\ struct_kind \in {"named", "unnamed"}
    /\ struct_fields \in UNION {[1..n -> StepField] : n \in 0..MaxStepFields}
    /\ struct_attr \in [encoding_type : {None}, inferred_values : {FALSE},
                        hooks : [pre_enc_func : {FALSE}, post_enc_func : {FALSE},
                                 pre_dec_func : BOOLEAN, post_dec_func : BOOLEAN]]
    /\ post_dec_fn \in IF struct_attr.hooks.post_dec_func THEN PostDecFuncs
                       ELSE {"undo_change_example2"}
    /\ dec_input \in StepInputs
    /\ cur_buffer = dec_input
    /\ cur_env = [i \in 1..Len(struct_fields) |-> 0]
    /\ cur_stmt = 1
    /\ cur_decoded_res = None
    /\ enc_struct = None
    /\ dec_struct = None
    /\ self_value = <<>>
    /\ buf = <<>>
    /\ enc_calls = <<>>
    /\ dec_result = None
    /\ dec_calls = <<>>
    /\ pc = IF struct_attr.hooks.pre_dec_func THEN "pre_dec_func" ELSE "body"
    /\ EmptyUnionRun /\ EmptyPrim /\ EmptyAttr
    /\ EmptyChain /\ EmptyCoder

\* buffer = #f_name (buffer)?;
PreDecFunc ==
    /\ pc = "pre_dec_func"
    /\ LET res == undo_append_data_e2(cur_buffer)
       IN  /\ dec_calls' = Append(dec_calls, Call("pre_dec_func", 0, res))
           /\ cur_buffer' = IF IsSome(res) THEN Unwrap(res) ELSE cur_buffer
           /\ pc' = question_mark(res, "body")
    /\ UNCHANGED <<enum_vars, struct_kind, struct_fields, struct_attr, enc_struct,
                   dec_struct, self_value, buf, enc_calls, dec_input, dec_result,
                   post_dec_fn, cur_env, cur_stmt, cur_decoded_res,
                   union_run_vars, prim_vars, attr_vars, chain_vars, coder_vars>>

\* let _res_x = Decodable::decode_from_buf(buffer)?; let x = _res_x.0;
\* buffer = _res_x.1;       or       let x = Default::default();
LetStmt ==
    /\ pc = "body"
    /\ cur_stmt <= Len(step_code.body.stmts)
    /\ LET st == step_code.body.stmts[cur_stmt]
           res == IF st.ignore
                  THEN Some([value |-> default_int(st.ty), rest |-> cur_buffer])
                  ELSE decode_from_buf_int(st.ty, cur_buffer)
       IN  /\ dec_calls' = Append(dec_calls,
                                  Call(IF st.ignore THEN "default" ELSE "decode_from_buf",
                                       st.bind, res))
           /\ cur_env' = IF IsSome(res) THEN [cur_env EXCEPT ![st.bind] = Unwrap(res).value]
                         ELSE cur_env
           /\ cur_buffer' = IF IsSome(res) THEN Unwrap(res).rest ELSE cur_buffer
           /\ pc' = question_mark(res, "body")
    /\ cur_stmt' = cur_stmt + 1
    /\ UNCHANGED <<enum_vars, struct_kind, struct_fields, struct_attr, enc_struct,
                   dec_struct, self_value, buf, enc_calls, dec_input, dec_result,
                   post_dec_fn, cur_decoded_res, union_run_vars, prim_vars, attr_vars, chain_vars, coder_vars>>

\* let decoded_res = Self { .. };  /  Self ( .. );  /  Self;
Construct ==
    /\ pc = "body"
    /\ cur_stmt > Len(step_code.body.stmts)
    /\ cur_decoded_res' = Some([k \in 1..Len(step_code.body.ctor) |->
                                  cur_env[step_code.body.ctor[k]]])
    /\ pc' = "post_dec_func"
    /\ UNCHANGED <<enum_vars, struct_kind, struct_fields, struct_attr, enc_struct,
                   dec_struct, self_value, buf, enc_calls, dec_input, dec_result,
                   dec_calls, post_dec_fn, cur_buffer, cur_env, cur_stmt,
                   union_run_vars, prim_vars, attr_vars, chain_vars, coder_vars>>

\* let r = #f_name (decoded_res, buffer)?; let res = r.0; buffer = r.1;
\* or, without a hook,  let res = decoded_res;
PostDecFunc ==
    /\ pc = "post_dec_func"
    /\ IF step_code.post_dec_func
       THEN LET r == post_dec_func_call(post_dec_fn, Unwrap(cur_decoded_res), cur_buffer)
            IN  /\ dec_calls' = Append(dec_calls, Call("post_dec_func", 0, r))
                /\ cur_decoded_res' = IF IsSome(r) THEN Some(Unwrap(r).value)
                                      ELSE cur_decoded_res
                /\ cur_buffer' = IF IsSome(r) THEN Unwrap(r).rest ELSE cur_buffer
                /\ pc' = question_mark(r, "return")
       ELSE /\ pc' = "return"
            /\ UNCHANGED <<dec_calls, cur_decoded_res, cur_buffer>>
    /\ UNCHANGED <<enum_vars, struct_kind, struct_fields, struct_attr, enc_struct,
                   dec_struct, self_value, buf, enc_calls, dec_input, dec_result,
                   post_dec_fn, cur_env, cur_stmt, union_run_vars, prim_vars, attr_vars, chain_vars, coder_vars>>

\* return Some((res, buffer));
Return ==
    /\ pc = "return"
    /\ dec_result' = Some([value |-> Unwrap(cur_decoded_res), rest |-> cur_buffer])
    /\ pc' = "some"
    /\ UNCHANGED <<enum_vars, struct_kind, struct_fields, struct_attr, enc_struct,
                   dec_struct, self_value, buf, enc_calls, dec_input, dec_calls,
                   step_vars, union_run_vars, prim_vars, attr_vars, chain_vars, coder_vars>>

NextSteps == PreDecFunc \/ LetStmt \/ Construct \/ PostDecFunc \/ Return

SpecSteps == InitSteps /\ [][NextSteps]_vars

(***************************************************************************)
(* The code generated for an enum, and a run of it: the derivations, one   *)
(* encode of a value and one decode of a slice.                            *)
(***************************************************************************)
MaxRunVariants == 2

\* a payload field of a variant: its type, and the order_no of a
\* #[byte_coding(order_no = ..)] written on it
PayloadField == [ty : FieldTypes, order_no : {None, Some(0)}]

\* the payloads of the variants: unit, one field, and two fields the second
\* of which carries order_no = 0
Payloads == {<<>>,
             <<[ty |-> "u8", order_no |-> None]>>,
             <<[ty |-> "u16", order_no |-> None], [ty |-> "u8", order_no |-> Some(0)]>>}

RunVariant == [value : {None, Some(U128Small(10, 0)), Some(U128Pow(2))},
               discriminant : {None}]

RunEnumAttr == [encoding_type : {None, Some("U8"), Some("U32")},
                inferred_values : {TRUE},
                hooks : {NoHooks}]

\* a variant of encoding_enum_branch that orders the payload fields as the
\* fields of a struct are ordered
encoding_enum_branch_by_orderno(fields) ==
    sort_by_orderno([k \in 1..Len(fields) |-> [order_no |-> fields[k].order_no]],
                    [k \in 1..Len(fields) |-> k])

\* the `#f_ident.encode_to_buf(buf);` statements of one match branch, each
\* named by the declaration index of its field: variant.fields.iter()
encoding_enum_branch(fields) == [k \in 1..Len(fields) |-> k]

\* match data { Self::V(v0, ..) => { let value: T = tag; value.encode_to_buf(buf);
\* v0.encode_to_buf(buf); .. } }
encode_to_buf_enum(tags, pl, value, b) ==
    LET i == value.variant
    IN  encode_body(encoding_enum_branch(pl[i]), 1, pl[i], value.fields, b \o tags[i])

\* <u8 / u16 / u32 / u64 / u128 as Decodable>::decode_from_buf, the value
\* kept as its w little-endian bytes
decode_from_buf_uint(w, buffer) ==
    IF Len(buffer) < w THEN None
    ELSE Some([value |-> SubSeq(buffer, 1, w), rest |-> SubSeq(buffer, w + 1, Len(buffer))])

\* the statements of one decode branch: let res = Decodable::decode_from_buf(buffer)?;
\* let vK: ty = res.0; buffer = res.1;  in declaration order
RECURSIVE decode_enum_branch(_, _, _, _)
decode_enum_branch(fields, k, vals, buffer) ==
    IF k > Len(fields) THEN Some([value |-> vals, rest |-> buffer])
    ELSE LET res == decode_from_buf_int(fields[k].ty, buffer)
         IN  IF ~IsSome(res) THEN None
             ELSE decode_enum_branch(fields, k + 1, Append(vals, Unwrap(res).value),
                                     Unwrap(res).rest)

\* a variant of match_branch that takes the first branch when no pattern
\* matches
match_branch_or_first(pats, variant_value) ==
    IF \E i \in 1..Len(pats) : pats[i] = variant_value
    THEN Some(CHOOSE i \in 1..Len(pats) :
                 pats[i] = variant_value /\ \A j \in 1..(i - 1) : pats[j] # variant_value)
    ELSE IF Len(pats) > 0 THEN Some(1) ELSE None

\* match variant_value { pat => .., .., _ => return None }: the first branch
\* whose pattern is the value
match_branch(pats, variant_value) ==
    IF \E i \in 1..Len(pats) : pats[i] = variant_value
    THEN Some(CHOOSE i \in 1..Len(pats) :
                 pats[i] = variant_value /\ \A j \in 1..(i - 1) : pats[j] # variant_value)
    ELSE None

\* #value_parse  let decoded_res = match variant_value { .. };  return Some(..)
decode_from_buf_enum(pats, pl, w, buffer) ==
    LET res == decode_from_buf_uint(w, buffer)
    IN  IF ~IsSome(res) THEN None
        ELSE LET br == match_branch(pats, Unwrap(res).value)
             IN  IF ~IsSome(br) THEN None
                 ELSE LET body == decode_enum_branch(pl[Unwrap(br)], 1, <<>>,
                                                     Unwrap(res).rest)
                      IN  IF ~IsSome(body) THEN None
                          ELSE Some([value |-> [variant |-> Unwrap(br),
                                                fields |-> Unwrap(body).value],
                                     rest |-> Unwrap(body).rest])

\* the values of a variant with payload fields pl
PayloadValues(pl) ==
    {v \in [1..Len(pl) -> UNION {FieldValues(t) : t \in FieldTypes}] :
        \A k \in 1..Len(pl) : v[k] \in FieldValues(pl[k].ty)}

\* slices that are not encodings of a value
RawInputs == {<<>>, <<10>>, <<0, 0>>, <<7, 0>>, <<10, 0, 0>>, <<7, 0, 0, 0>>,
              <<10, 0, 0, 0>>, <<0, 0, 1, 0>>}

Prefixes(b) == {SubSeq(b, 1, n) : n \in 0..Len(b)}

InitUnionRun ==
    /\ enum_attr \in RunEnumAttr
    /\ variants \in UNION {[1..n -> RunVariant] : n \in 0..MaxRunVariants}
    /\ payloads \in [1..Len(variants) -> Payloads]
    /\ union_value = None
    /\ enc_enum = Pending
    /\ dec_enum = Pending
    /\ EmptyStruct
    /\ pc = "union"
    /\ EmptySteps /\ EmptyPrim /\ EmptyAttr
    /\ EmptyChain /\ EmptyCoder

\* value.encoded() for a value of the enum
EncodeUnion ==
    /\ pc = "union"
    /\ enc_enum # Pending /\ enc_enum.err = NoErr
    /\ union_value = None
    /\ \E i \in 1..Len(variants) : \E v \in PayloadValues(payloads[i]) :
          /\ union_value' = Some([variant |-> i, fields |-> v])
          /\ buf' = encode_to_buf_enum(enc_enum.tags, payloads,
                                       [variant |-> i, fields |-> v], <<>>)
    /\ UNCHANGED <<enum_vars, struct_kind, struct_fields, struct_attr, enc_struct,
                   dec_struct, self_value, enc_calls, dec_input, dec_result, dec_calls,
                   pc, payloads, step_vars, prim_vars, attr_vars, chain_vars, coder_vars>>

\* Decodable::decode_from_buf(&slice): of the encoded bytes, of a prefix of
\* them, or of another slice
DecodeUnion ==
    /\ pc = "union"
    /\ dec_enum # Pending /\ dec_enum.err = NoErr
    /\ \E input \in Prefixes(buf) \cup RawInputs :
          /\ dec_input' = input
          /\ dec_result' = decode_from_buf_enum(dec_enum.tags, payloads,
                                                tag_bytes(enum_attr), input)
    /\ pc' = "decoded"
    /\ UNCHANGED <<enum_vars, struct_kind, struct_fields, struct_attr, enc_struct,
                   dec_struct, self_value, buf, enc_calls, dec_calls,
                   union_run_vars, step_vars, prim_vars, attr_vars, chain_vars, coder_vars>>

NextUnionRun == EncodableDeriveEnum \/ DecodableDeriveEnum \/ EncodeUnion \/ DecodeUnion

SpecUnionRun == InitUnionRun /\ [][NextUnionRun]_vars

(***************************************************************************)
(* encodable.rs / decodable.rs: String and [bool; 8].  A String is the     *)
(* sequence of its UTF-8 bytes; a decode ends with a value, with None, or  *)
(* with a panic.                                                           *)
(***************************************************************************)
MaxStrLen == 4

\* the outcomes of a decode_from_buf
Returned(res) == [panic |-> FALSE, res |-> res]
Panicked == [panic |-> TRUE, res |-> None]

\* (n as u64).to_le_bytes() of a usize n
usize_to_le_bytes(n) ==
    <<n % 256, (n \div 256) % 256, (n \div 65536) % 256, (n \div 16777216) % 256,
      0, 0, 0, 0>>

\* a > b for two unsigned integers given by their little-endian bytes
le_gt(a, b) ==
    \E i \in 1..Len(a) : a[i] > b[i] /\ \A j \in (i + 1)..Len(a) : a[j] = b[j]

\* u64::from_le_bytes(bytes) as usize, for a value that is at most the
\* length of a slice
le_value(bytes) == bytes[1] + 256 * bytes[2] + 65536 * bytes[3]

\* a UTF-8 continuation byte
is_cont(b) == b >= 128 /\ b <= 191

\* String::from_utf8(bytes).is_ok(): bytes is a sequence of well-formed
\* UTF-8 byte sequences
RECURSIVE from_utf8_ok(_)
from_utf8_ok(bytes) ==
    IF bytes = <<>> THEN TRUE
    ELSE
      LET b == bytes[1]
          n == Len(bytes)
          tail(k) == SubSeq(bytes, k + 1, n)
      IN  IF b < 128 THEN from_utf8_ok(tail(1))
          ELSE IF b >= 194 /\ b <= 223
          THEN n >= 2 /\ is_cont(bytes[2]) /\ from_utf8_ok(tail(2))
          ELSE IF b >= 224 /\ b <= 239
          THEN /\ n >= 3
               /\ is_cont(bytes[2]) /\ is_cont(bytes[3])
               /\ (b = 224 => bytes[2] >= 160)
               /\ (b = 237 => bytes[2] <= 159)
               /\ from_utf8_ok(tail(3))
          ELSE IF b >= 240 /\ b <= 244
          THEN /\ n >= 4
               /\ is_cont(bytes[2]) /\ is_cont(bytes[3]) /\ is_cont(bytes[4])
               /\ (b = 240 => bytes[2] >= 144)
               /\ (b = 244 => bytes[2] <= 143)
               /\ from_utf8_ok(tail(4))
          ELSE FALSE

\* str::chars().count(): the bytes that are not continuation bytes
RECURSIVE chars_count(_)
chars_count(bytes) ==
    IF bytes = <<>> THEN 0
    ELSE (IF is_cont(bytes[1]) THEN 0 ELSE 1) + chars_count(Tail(bytes))

\* a variant of encode_to_buf_str that writes the number of characters
encode_to_buf_str_chars(str, b) == b \o usize_to_le_bytes(chars_count(str)) \o str

\* <&str as Encodable>::encode_to_buf, and String's through as_str()
encode_to_buf_str(str, b) == b \o usize_to_le_bytes(Len(str)) \o str

\* <String as Decodable>::decode_from_buf: the slice expression
\* buffer[0..len as usize] panics when len exceeds buffer.len()
decode_from_buf_String(buffer) ==
    LET len_res == decode_from_buf_uint(8, buffer)
    IN  IF ~IsSome(len_res) THEN Returned(None)
        ELSE
          LET len == Unwrap(len_res).value
              rest == Unwrap(len_res).rest
          IN  IF le_gt(len, usize_to_le_bytes(Len(rest))) THEN Panicked
              ELSE LET n == le_value(len)
                       bytes == SubSeq(rest, 1, n)
                   IN  IF ~from_utf8_ok(bytes) THEN Returned(None)
                       ELSE Returned(Some([value |-> bytes,
                                           rest |-> SubSeq(rest, n + 1, Len(rest))]))

\* 1 << i for a u8
shl_1(i) == <<1, 2, 4, 8, 16, 32, 64, 128>>[i + 1]

\* a variant of encode_to_buf_bool_array that packs the first element into
\* the least significant bit
encode_to_buf_bool_array_lsb(arr, b) ==
    LET RECURSIVE loop(_, _)
        loop(k, byte) ==
            IF k > Len(arr) THEN byte
            ELSE loop(k + 1, byte + (IF arr[k] THEN shl_1(k - 1) ELSE 0))
    IN  Append(b, loop(1, 0))

\* <[bool; 8] as Encodable>::encode_to_buf
encode_to_buf_bool_array(arr, b) ==
    LET RECURSIVE loop(_, _)
        loop(k, byte) ==
            IF k > Len(arr) THEN byte
            ELSE LET shifted == (byte * 2) % 256                      \* byte <<= 1
                 IN  loop(k + 1, IF arr[k] THEN shifted + 1 - (shifted % 2)
                                 ELSE shifted)                        \* byte |= 1
    IN  Append(b, loop(1, 0))

\* <bool as Decodable>::decode_from_buf
decode_from_buf_bool(buffer) ==
    IF Len(buffer) < 1 THEN None
    ELSE Some([value |-> buffer[1] > 0, rest |-> Tail(buffer)])

\* <[T; N] as Decodable>::decode_from_buf for T = bool, N = 8: with the
\* feature one byte is read (buffer[i] panics on an empty slice) and bit i
\* of it is element i; without it N values of T are decoded one by one
decode_from_buf_bool_array(feature, buffer) ==
    IF feature
    THEN IF Len(buffer) < 1 THEN Panicked
         ELSE Returned(Some([value |-> [t \in 1..8 |->
                                          (buffer[1] \div shl_1(t - 1)) % 2 # 0],
                             rest |-> Tail(buffer)]))
    ELSE LET RECURSIVE loop(_, _, _)
             loop(k, vec, rest) ==
                 IF k > 8 THEN Some([value |-> vec, rest |-> rest])
                 ELSE LET res == decode_from_buf_bool(rest)
                      IN  IF ~IsSome(res) THEN None
                          ELSE loop(k + 1, Append(vec, Unwrap(res).value), Unwrap(res).rest)
         IN  Returned(loop(1, <<>>, buffer))

\* the bytes strings are made of: 't', 'e', 's' and the two bytes of U+00E9
StrBytes == {116, 101, 115, 195, 169}

Strings == {str \in UNION {[1..n -> StrBytes] : n \in 0..MaxStrLen} : from_utf8_ok(str)}

BoolArrays == [1..8 -> BOOLEAN]

\* the slices a String is decoded from: the encoding b, its prefixes, b with
\* a longer length prefix, b followed by another byte and, when the string
\* is not empty, b with its last byte replaced by one that is never part of
\* UTF-8 and the encoding of the string without its last byte (which cuts a
\* two-byte character)
StringInputs(b) ==
    Prefixes(b)
    \cup {[b EXCEPT ![1] = b[1] + 1], [b EXCEPT ![8] = 255], Append(b, 116)}
    \cup (IF Len(b) > 8
          THEN {[b EXCEPT ![Len(b)] = 255],
                SubSeq([b EXCEPT ![1] = b[1] - 1], 1, Len(b) - 1)}
          ELSE {})

InitPrim ==
    /\ EmptyUnion
    /\ EmptyStruct
    /\ EmptySteps /\ EmptyUnionRun /\ EmptyAttr
    /\ EmptyChain /\ EmptyCoder
    /\ \/ /\ prim_value \in {Some([ty |-> "String", v |-> str]) : str \in Strings}
          /\ bool_arr_optimization = FALSE
       \/ /\ prim_value \in {Some([ty |-> "[bool; 8]", v |-> arr]) : arr \in BoolArrays}
          /\ bool_arr_optimization \in BOOLEAN
    /\ panicked = FALSE
    /\ pc = "start"

\* s.encoded() for a String
EncodeString ==
    /\ pc = "start"
    /\ Unwrap(prim_value).ty = "String"
    /\ buf' = encode_to_buf_str(Unwrap(prim_value).v, <<>>)
    /\ pc' = "encoded"
    /\ UNCHANGED <<enum_vars, struct_kind, struct_fields, struct_attr, enc_struct,
                   dec_struct, self_value, enc_calls, dec_input, dec_result, dec_calls,
                   step_vars, union_run_vars, prim_vars, attr_vars, chain_vars, coder_vars>>

\* String::decode_from_buf(&slice)
DecodeString ==
    /\ pc = "encoded"
    /\ Unwrap(prim_value).ty = "String"
    /\ \E input \in StringInputs(buf) :
          LET r == decode_from_buf_String(input)
          IN  /\ dec_input' = input
              /\ dec_result' = r.res
              /\ panicked' = r.panic
    /\ pc' = "decoded"
    /\ UNCHANGED <<enum_vars, struct_kind, struct_fields, struct_attr, enc_struct,
                   dec_struct, self_value, buf, enc_calls, dec_calls,
                   step_vars, union_run_vars, prim_value, bool_arr_optimization,
                   attr_vars, chain_vars, coder_vars>>

\* b.encoded() for a [bool; 8]
EncodeBoolArray ==
    /\ pc = "start"
    /\ Unwrap(prim_value).ty = "[bool; 8]"
    /\ buf' = encode_to_buf_bool_array(Unwrap(prim_value).v, <<>>)
    /\ pc' = "encoded"
    /\ UNCHANGED <<enum_vars, struct_kind, struct_fields, struct_attr, enc_struct,
                   dec_struct, self_value, enc_calls, dec_input, dec_result, dec_calls,
                   step_vars, union_run_vars, prim_vars, attr_vars, chain_vars, coder_vars>>

\* <[bool; 8]>::decode_from_buf(&encoded)
DecodeBoolArray ==
    /\ pc = "encoded"
    /\ Unwrap(prim_value).ty = "[bool; 8]"
    /\ LET r == decode_from_buf_bool_array(bool_arr_optimization, buf)
       IN  /\ dec_input' = buf
           /\ dec_result' = r.res
           /\ panicked' = r.panic
    /\ pc' = "decoded"
    /\ UNCHANGED <<enum_vars, struct_kind, struct_fields, struct_attr, enc_struct,
                   dec_struct, self_value, buf, enc_calls, dec_calls,
                   step_vars, union_run_vars, prim_value, bool_arr_optimization,
                   attr_vars, chain_vars, coder_vars>>

NextPrim == EncodeString \/ DecodeString \/ EncodeBoolArray \/ DecodeBoolArray

SpecPrim == InitPrim /\ [][NextPrim]_vars

(***************************************************************************)
(* byte_coding_attr.rs: the attributes.  A block is one                    *)
(* #[byte_coding(...)], the sequence of its nested entries; an entry is a  *)
(* name-value (path = literal), a path, a nested list or a bare literal.   *)
(***************************************************************************)
MaxBlocks == 2

ErrExpectedString == "Expected a string."
ErrExpectedNumber == "Expected a number."
ErrUnknownName == "Unknown attribute name"
ErrUnknownEncodingType == "Unknown encoding type."
ErrUnexpectedType == "Unexpected attribute type"
ErrUnexpectedLiteral == "Unexpected attribute literal"
ErrEnumArgument == "Enum argument supplied to attribute on struct."

\* literals and entries
StrLit(str) == [kind |-> "str", s |-> str, n |-> 0]
IntLit(num) == [kind |-> "int", s |-> "", n |-> num]
NoLit == [kind |-> "none", s |-> "", n |-> 0]
NameValue(path, lit) == [form |-> "name_value", path |-> path, lit |-> lit]
Path(path) == [form |-> "path", path |-> path, lit |-> NoLit]
List == [form |-> "list", path |-> <<"nested">>, lit |-> NoLit]
Lit == [form |-> "lit", path |-> <<>>, lit |-> StrLit("f")]

\* ByteCodingAttr::lit_to_string
lit_to_string(literal) ==
    IF literal.kind = "str" THEN [err |-> NoErr, v |-> literal.s]
    ELSE [err |-> ErrExpectedString, v |-> ""]

\* lit_to_num of ByteCodingEnumVariantAttr and ByteCodingStructFieldAttr
lit_to_num(literal) ==
    IF literal.kind = "int" THEN [err |-> NoErr, v |-> literal.n]
    ELSE [err |-> ErrExpectedNumber, v |-> 0]

\* impl Default for ByteCodingAttr
ByteCodingAttr_default ==
    [pre_enc_func |-> None, post_enc_func |-> None, pre_dec_func |-> None,
     post_dec_func |-> None, enum_options |-> None]

\* the string of an encoding_type and its EnumEncodingType
encoding_type_of(str) ==
    CASE str = "u8" -> Some("U8")
      [] str = "u16" -> Some("U16")
      [] str = "u32" -> Some("U32")
      [] str = "u64" -> Some("U64")
      [] str = "u128" -> Some("U128")
      [] OTHER -> None

\* ByteCodingAttr::set_name_value: the error built for a path of several
\* segments is dropped, and the first segment alone selects the key
attr_set_name_value(self, name_value) ==
    LET key == name_value.path[1]
        str == lit_to_string(name_value.lit)
    IN  IF key \in {"pre_enc_func", "pre_dec_func", "post_enc_func", "post_dec_func"}
        THEN IF str.err # NoErr THEN [err |-> str.err, attr |-> self]
             ELSE [err |-> NoErr, attr |-> [self EXCEPT ![key] = Some(str.v)]]
        ELSE IF key = "encoding_type"
        THEN IF str.err # NoErr THEN [err |-> str.err, attr |-> self]
             ELSE IF ~IsSome(encoding_type_of(str.v))
             THEN [err |-> ErrUnknownEncodingType, attr |-> self]
             ELSE [err |-> NoErr,
                   attr |-> [self EXCEPT !.enum_options =
                       IF ~IsSome(self.enum_options)
                       THEN Some([encoding_type |-> encoding_type_of(str.v),
                                  inferred_values |-> FALSE])
                       ELSE Some([Unwrap(self.enum_options) EXCEPT
                                     !.encoding_type = encoding_type_of(str.v)])]]
        ELSE [err |-> ErrUnknownName, attr |-> self]

\* ByteCodingAttr::set_path
attr_set_path(self, path) ==
    IF path[1] = "inferred_values"
    THEN [err |-> NoErr,
          attr |-> [self EXCEPT !.enum_options =
              IF ~IsSome(self.enum_options)
              THEN Some([encoding_type |-> None, inferred_values |-> TRUE])
              ELSE Some([Unwrap(self.enum_options) EXCEPT !.inferred_values = TRUE])]]
    ELSE [err |-> ErrUnknownName, attr |-> self]

\* impl TryFrom<&Meta> for ByteCodingAttr, on the entries of a Meta::List
attr_try_from(nested) ==
    LET RECURSIVE loop(_, _)
        loop(k, a) ==
            IF k > Len(nested) THEN [err |-> NoErr, attr |-> a]
            ELSE LET r == CASE nested[k].form = "name_value" -> attr_set_name_value(a, nested[k])
                            [] nested[k].form = "path" -> attr_set_path(a, nested[k].path)
                            [] nested[k].form = "list" -> [err |-> ErrUnexpectedType, attr |-> a]
                            [] OTHER -> [err |-> ErrUnexpectedLiteral, attr |-> a]
                 IN  IF r.err # NoErr THEN r ELSE loop(k + 1, r.attr)
    IN  loop(1, ByteCodingAttr_default)

\* merge_optionals!
merge_optionals(a, b) == IF IsSome(b) THEN b ELSE a

\* a variant of merged in which the earlier block wins
merged_first_wins(self, other) ==
    [pre_enc_func |-> merge_optionals(other.pre_enc_func, self.pre_enc_func),
     pre_dec_func |-> merge_optionals(other.pre_dec_func, self.pre_dec_func),
     post_enc_func |-> merge_optionals(other.post_enc_func, self.post_enc_func),
     post_dec_func |-> merge_optionals(other.post_dec_func, self.post_dec_func),
     enum_options |->
        IF IsSome(self.enum_options) THEN self.enum_options ELSE other.enum_options]

\* ByteCodingAttr::merged
merged(self, other) ==
    [pre_enc_func |-> merge_optionals(self.pre_enc_func, other.pre_enc_func),
     pre_dec_func |-> merge_optionals(self.pre_dec_func, other.pre_dec_func),
     post_enc_func |-> merge_optionals(self.post_enc_func, other.post_enc_func),
     post_dec_func |-> merge_optionals(self.post_dec_func, other.post_dec_func),
     enum_options |->
        IF IsSome(self.enum_options)
        THEN IF IsSome(other.enum_options)
             THEN Some([encoding_type |->
                            merge_optionals(Unwrap(self.enum_options).encoding_type,
                                            Unwrap(other.enum_options).encoding_type),
                        inferred_values |->
                            Unwrap(self.enum_options).inferred_values
                            \/ Unwrap(other.enum_options).inferred_values])
             ELSE self.enum_options
        ELSE other.enum_options]

\* ByteCodingAttr::from_data: Err of the first block that fails, otherwise
\* the blocks merged left to right (the default without blocks) and the
\* first block that has enum_options
from_data(blocks) ==
    LET RECURSIVE loop(_, _, _)
        loop(k, running, first_enum_attr) ==
            IF k > Len(blocks)
            THEN [err |-> NoErr,
                  attr |-> IF IsSome(running) THEN Unwrap(running) ELSE ByteCodingAttr_default,
                  first_enum_attr |-> first_enum_attr]
            ELSE LET n_attr == attr_try_from(blocks[k])
                 IN  IF n_attr.err # NoErr
                     THEN [err |-> n_attr.err, attr |-> ByteCodingAttr_default,
                           first_enum_attr |-> None]
                     ELSE loop(k + 1,
                               IF IsSome(running)
                               THEN Some(merged(Unwrap(running), n_attr.attr))
                               ELSE Some(n_attr.attr),
                               IF IsSome(n_attr.attr.enum_options) /\ ~IsSome(first_enum_attr)
                               THEN Some(k) ELSE first_enum_attr)
    IN  loop(1, None, None)

\* impl Default for ByteCodingStructFieldAttr
ByteCodingStructFieldAttr_default == [order_no |-> None, ignore |-> FALSE]

\* ByteCodingStructFieldAttr::set_name_value
field_set_name_value(self, name_value) ==
    IF name_value.path[1] = "order_no"
    THEN LET num == lit_to_num(name_value.lit)
         IN  IF num.err # NoErr THEN [err |-> num.err, attr |-> self]
             ELSE [err |-> NoErr, attr |-> [self EXCEPT !.order_no = Some(num.v)]]
    ELSE [err |-> ErrUnknownName, attr |-> self]

\* ByteCodingStructFieldAttr::set_path
field_set_path(self, path) ==
    IF path[1] = "ignore"
    THEN [err |-> NoErr, attr |-> [self EXCEPT !.ignore = TRUE]]
    ELSE [err |-> ErrUnknownName, attr |-> self]

\* impl TryFrom<&Meta> for ByteCodingStructFieldAttr
field_try_from(nested) ==
    LET RECURSIVE loop(_, _)
        loop(k, a) ==
            IF k > Len(nested) THEN [err |-> NoErr, attr |-> a]
            ELSE LET r == CASE nested[k].form = "name_value" -> field_set_name_value(a, nested[k])
                            [] nested[k].form = "path" -> field_set_path(a, nested[k].path)
                            [] nested[k].form = "list" -> [err |-> ErrUnexpectedType, attr |-> a]
                            [] OTHER -> [err |-> ErrUnexpectedLiteral, attr |-> a]
                 IN  IF r.err # NoErr THEN r ELSE loop(k + 1, r.attr)
    IN  loop(1, ByteCodingStructFieldAttr_default)

\* ByteCodingStructFieldAttr::merge
field_merge(self, other) ==
    [order_no |-> merge_optionals(self.order_no, other.order_no),
     ignore |-> self.ignore \/ other.ignore]

\* ByteCodingStructFieldAttr::parse_attributes
field_parse_attributes(blocks) ==
    LET RECURSIVE loop(_, _)
        loop(k, working) ==
            IF k > Len(blocks) THEN [err |-> NoErr, attr |-> working]
            ELSE LET n_attr == field_try_from(blocks[k])
                 IN  IF n_attr.err # NoErr
                     THEN [err |-> n_attr.err, attr |-> ByteCodingStructFieldAttr_default]
                     ELSE loop(k + 1, field_merge(working, n_attr.attr))
    IN  loop(1, ByteCodingStructFieldAttr_default)

\* impl Default for ByteCodingEnumVariantAttr
ByteCodingEnumVariantAttr_default == [value |-> None]

\* ByteCodingEnumVariantAttr::set_name_value
variant_set_name_value(self, name_value) ==
    IF name_value.path[1] = "value"
    THEN LET num == lit_to_num(name_value.lit)
         IN  IF num.err # NoErr THEN [err |-> num.err, attr |-> self]
             ELSE [err |-> NoErr, attr |-> [self EXCEPT !.value = Some(num.v)]]
    ELSE [err |-> ErrUnknownName, attr |-> self]

\* impl TryFrom<&Meta> for ByteCodingEnumVariantAttr: a path is an
\* "Unexpected attribute type"
variant_try_from(nested) ==
    LET RECURSIVE loop(_, _)
        loop(k, a) ==
            IF k > Len(nested) THEN [err |-> NoErr, attr |-> a]
            ELSE LET r == CASE nested[k].form = "name_value" ->
                                   variant_set_name_value(a, nested[k])
                            [] nested[k].form \in {"path", "list"} ->
                                   [err |-> ErrUnexpectedType, attr |-> a]
                            [] OTHER -> [err |-> ErrUnexpectedLiteral, attr |-> a]
                 IN  IF r.err # NoErr THEN r ELSE loop(k + 1, r.attr)
    IN  loop(1, ByteCodingEnumVariantAttr_default)

\* ByteCodingEnumVariantAttr::merge
variant_merge(self, other) == [value |-> merge_optionals(self.value, other.value)]

\* ByteCodingEnumVariantAttr::parse_attributes
variant_parse_attributes(blocks) ==
    LET RECURSIVE loop(_, _)
        loop(k, working) ==
            IF k > Len(blocks) THEN [err |-> NoErr, attr |-> working]
            ELSE LET n_attr == variant_try_from(blocks[k])
                 IN  IF n_attr.err # NoErr
                     THEN [err |-> n_attr.err, attr |-> ByteCodingEnumVariantAttr_default]
                     ELSE loop(k + 1, variant_merge(working, n_attr.attr))
    IN  loop(1, ByteCodingEnumVariantAttr_default)

\* a variant of encoding_resolve without the check of first_enum_attr
encoding_resolve_unchecked(blocks, data) ==
    LET r == from_data(blocks)
    IN  IF r.err # NoErr THEN r.err ELSE "ok"

\* encoding(), up to the generation of the body: the compile error it
\* returns, or "ok"
encoding_resolve(blocks, data) ==
    LET r == from_data(blocks)
    IN  IF r.err # NoErr THEN r.err
        ELSE IF data = "struct" /\ IsSome(r.first_enum_attr) THEN ErrEnumArgument
        ELSE "ok"

\* decoding(), up to the generation of the body
decoding_resolve(blocks, data) ==
    LET r == from_data(blocks)
    IN  IF r.err # NoErr THEN r.err
        ELSE IF data = "struct" /\ IsSome(r.first_enum_attr) THEN ErrEnumArgument
        ELSE "ok"

(***************************************************************************)
(* The annotated declarations the attributes are resolved for.             *)
(***************************************************************************)
\* entries the attribute kinds accept
TypeEntries ==
    [pre_f |-> NameValue(<<"pre_enc_func">>, StrLit("f")),
     pre_g |-> NameValue(<<"pre_enc_func">>, StrLit("g")),
     post_h |-> NameValue(<<"post_dec_func">>, StrLit("h")),
     enc_u8 |-> NameValue(<<"encoding_type">>, StrLit("u8")),
     enc_u32 |-> NameValue(<<"encoding_type">>, StrLit("u32")),
     inferred |-> Path(<<"inferred_values">>)]

FieldEntries ==
    [order_0 |-> NameValue(<<"order_no">>, IntLit(0)),
     order_1 |-> NameValue(<<"order_no">>, IntLit(1)),
     ignore |-> Path(<<"ignore">>)]

VariantEntries ==
    [value_1 |-> NameValue(<<"value">>, IntLit(1)),
     value_2 |-> NameValue(<<"value">>, IntLit(2))]

\* entries with an unknown key, a key of another kind, a key of several
\* segments, a literal of the wrong type, or that are no name-value or path
OtherTypeEntries ==
    {NameValue(<<"unknown">>, StrLit("f")), NameValue(<<"order_no">>, IntLit(0)),
     NameValue(<<"pre_enc_func">>, IntLit(1)), NameValue(<<"encoding_type">>, StrLit("bad")),
     NameValue(<<"pre_enc_func", "x">>, StrLit("f")),
     Path(<<"unknown">>), Path(<<"pre_enc_func">>), Path(<<"inferred_values", "x">>),
     List, Lit}

OtherFieldEntries ==
    {NameValue(<<"unknown">>, IntLit(0)), NameValue(<<"value">>, IntLit(1)),
     NameValue(<<"order_no">>, StrLit("f")), NameValue(<<"order_no", "x">>, IntLit(0)),
     Path(<<"unknown">>), Path(<<"ignore", "x">>), List, Lit}

OtherVariantEntries ==
    {NameValue(<<"unknown">>, IntLit(1)), NameValue(<<"value">>, StrLit("f")),
     NameValue(<<"value", "x">>, IntLit(1)), Path(<<"ignore">>), List, Lit}

TypeBlocks ==
    {<<>>, <<TypeEntries.pre_f>>, <<TypeEntries.pre_g, TypeEntries.post_h>>,
     <<TypeEntries.pre_f, TypeEntries.pre_g>>, <<TypeEntries.enc_u8>>,
     <<TypeEntries.enc_u32, TypeEntries.inferred>>, <<TypeEntries.inferred>>}
    \cup {<<e>> : e \in OtherTypeEntries}

FieldBlocks ==
    {<<>>, <<FieldEntries.order_0>>, <<FieldEntries.order_1>>, <<FieldEntries.ignore>>,
     <<FieldEntries.order_1, FieldEntries.ignore>>}
    \cup {<<e>> : e \in OtherFieldEntries}

VariantBlocks ==
    {<<>>, <<VariantEntries.value_1>>, <<VariantEntries.value_2>>,
     <<VariantEntries.value_1, VariantEntries.value_2>>}
    \cup {<<e>> : e \in OtherVariantEntries}

BlocksOf(kind) ==
    CASE kind = "type" -> TypeBlocks
      [] kind = "field" -> FieldBlocks
      [] kind = "variant" -> VariantBlocks

InitAttr ==
    /\ EmptyUnion
    /\ EmptyStruct
    /\ EmptySteps /\ EmptyUnionRun /\ EmptyPrim
    /\ EmptyChain /\ EmptyCoder
    /\ attr_kind \in {"type", "field", "variant"}
    /\ attr_blocks \in UNION {[1..n -> BlocksOf(attr_kind)] : n \in 0..MaxBlocks}
    /\ data_kind \in IF attr_kind = "type" THEN {"struct", "enum"}
                     ELSE IF attr_kind = "field" THEN {"struct"} ELSE {"enum"}
    /\ attr_result = None
    /\ enc_resolved = "pending"
    /\ dec_resolved = "pending"
    /\ pc = "attr"

\* ByteCodingAttr::from_data(input)
FromData ==
    /\ pc = "attr" /\ attr_kind = "type" /\ attr_result = None
    /\ attr_result' = Some(from_data(attr_blocks))
    /\ UNCHANGED <<enum_vars, struct_vars, pc, step_vars, union_run_vars, prim_vars,
                   attr_kind, attr_blocks, data_kind, enc_resolved, dec_resolved,
                   chain_vars, coder_vars>>

\* ByteCodingStructFieldAttr::parse_attributes(&f.attrs)
ParseFieldAttributes ==
    /\ pc = "attr" /\ attr_kind = "field" /\ attr_result = None
    /\ attr_result' = Some(field_parse_attributes(attr_blocks))
    /\ UNCHANGED <<enum_vars, struct_vars, pc, step_vars, union_run_vars, prim_vars,
                   attr_kind, attr_blocks, data_kind, enc_resolved, dec_resolved,
                   chain_vars, coder_vars>>

\* ByteCodingEnumVariantAttr::parse_attributes(&variant.attrs)
ParseVariantAttributes ==
    /\ pc = "attr" /\ attr_kind = "variant" /\ attr_result = None
    /\ attr_result' = Some(variant_parse_attributes(attr_blocks))
    /\ UNCHANGED <<enum_vars, struct_vars, pc, step_vars, union_run_vars, prim_vars,
                   attr_kind, attr_blocks, data_kind, enc_resolved, dec_resolved,
                   chain_vars, coder_vars>>

\* #[derive(Encodable)] on the annotated type
EncodingResolve ==
    /\ pc = "attr" /\ attr_kind = "type" /\ enc_resolved = "pending"
    /\ enc_resolved' = encoding_resolve(attr_blocks, data_kind)
    /\ UNCHANGED <<enum_vars, struct_vars, pc, step_vars, union_run_vars, prim_vars,
                   attr_kind, attr_blocks, data_kind, attr_result, dec_resolved,
                   chain_vars, coder_vars>>

\* #[derive(Decodable)] on the annotated type
DecodingResolve ==
    /\ pc = "attr" /\ attr_kind = "type" /\ dec_resolved = "pending"
    /\ dec_resolved' = decoding_resolve(attr_blocks, data_kind)
    /\ UNCHANGED <<enum_vars, struct_vars, pc, step_vars, union_run_vars, prim_vars,
                   attr_kind, attr_blocks, data_kind, attr_result, enc_resolved,
                   chain_vars, coder_vars>>

NextAttr ==
    FromData \/ ParseFieldAttributes \/ ParseVariantAttributes
    \/ EncodingResolve \/ DecodingResolve

SpecAttr == InitAttr /\ [][NextAttr]_vars

(***************************************************************************)
(* encode_to_buf into a buffer that already holds bytes, and               *)
(* decode_from_buf of an encoding that is followed by other bytes.         *)
(***************************************************************************)
\* functions of the signature fn post_enc_func(buffer: &mut Vec<u8>):
\* append_data_e2 of the tests, and one that inserts the length in front
PostEncFuncs == {"append_data_e2", "prepend_len"}

\* buffer.insert(0, buffer.len() as u8)
prepend_len(buffer) == <<Len(buffer) % 256>> \o buffer

\* #f_name (buf);
post_enc_func_call(f, buffer) ==
    IF f = "append_data_e2" THEN append_data_e2(buffer) ELSE prepend_len(buffer)

\* fn encode_to_buf(&self, buf: &mut Vec<u8>) { #enc_leading #body #enc_post }
\* with f the function post_enc_func names
encode_to_buf_hook(code, f, fields, self, b) ==
    LET data == IF code.enc_leading THEN change_example2(self) ELSE self
        b1 == encode_body(code.body, 1, fields, data, b)
    IN  IF code.enc_post THEN post_enc_func_call(f, b1) ELSE b1

\* what the caller's buffer holds before the call
InitBufs == {<<>>, <<9>>, <<9, 104>>}
\* what follows the encoding in the slice that is decoded
Suffixes == {<<>>, <<7>>, <<7, 104>>}
\* a value of the record: a different number in every field
ChainValue(fields) ==
    [i \in 1..Len(fields) |-> IF fields[i].ty = "u8" THEN i ELSE 512 + i]

InitChain ==
    /\ EmptyUnion
    /\ struct_kind \in {"named", "unnamed"}
    /\ struct_fields \in UNION {[1..n -> StepField] : n \in 0..MaxStepFields}
    /\ struct_attr \in [encoding_type : {None}, inferred_values : {FALSE},
                        hooks : [pre_enc_func : BOOLEAN, post_enc_func : BOOLEAN,
                                 pre_dec_func : {FALSE}, post_dec_func : {FALSE}]]
    /\ post_enc_fn \in IF struct_attr.hooks.post_enc_func THEN PostEncFuncs
                       ELSE {"append_data_e2"}
    /\ self_value = ChainValue(struct_fields)
    /\ init_buf \in InitBufs
    /\ buf = init_buf
    /\ suffix = <<>>
    /\ enc_struct = None
    /\ dec_struct = None
    /\ enc_calls = <<>>
    /\ dec_input = <<>>
    /\ dec_result = None
    /\ dec_calls = <<>>
    /\ pc = "chain"
    /\ EmptySteps /\ EmptyUnionRun /\ EmptyPrim /\ EmptyAttr /\ EmptyCoder

\* self_value.encode_to_buf(&mut buf)
EncodeToBuf ==
    /\ pc = "chain"
    /\ buf' = encode_to_buf_hook(encoding(struct_attr, struct_kind, struct_fields),
                                 post_enc_fn, struct_fields, self_value, buf)
    /\ pc' = "appended"
    /\ UNCHANGED <<enum_vars, struct_kind, struct_fields, struct_attr, enc_struct,
                   dec_struct, self_value, enc_calls, dec_input, dec_result, dec_calls,
                   step_vars, union_run_vars, prim_vars, attr_vars, chain_vars, coder_vars>>

\* Decodable::decode_from_buf(&[self_value.encoded(), x].concat())
DecodeChained ==
    /\ pc = "chain"
    /\ \E x \in Suffixes :
          LET input == encode_to_buf_hook(encoding(struct_attr, struct_kind, struct_fields),
                                          post_enc_fn, struct_fields, self_value, <<>>) \o x
              r == decode_from_buf(decoding(struct_attr, struct_kind, struct_fields), input)
          IN  /\ suffix' = x
              /\ dec_input' = input
              /\ dec_result' = r.result
              /\ dec_calls' = r.calls
    /\ pc' = "chained"
    /\ UNCHANGED <<enum_vars, struct_kind, struct_fields, struct_attr, enc_struct,
                   dec_struct, self_value, buf, enc_calls,
                   step_vars, union_run_vars, prim_vars, attr_vars,
                   init_buf, post_enc_fn, coder_vars>>

NextChain == EncodeToBuf \/ DecodeChained

SpecChain == InitChain /\ [][NextChain]_vars

(***************************************************************************)
(* coder.rs: the Coder.  An object is a type and a value: a u16 as its two *)
(* little-endian bytes, a String as its UTF-8 bytes, a [bool; 8] as its    *)
(* eight elements.  encoded and decoded record the objects handed to       *)
(* encode and returned by decode_next_object; last_call is the last call   *)
(* and what it returned.                                                   *)
(***************************************************************************)
MaxCalls == 5

CoderTypes == {"u16", "String", "[bool; 8]"}

\* the objects the Coder is used with: 0xffffu16, 0xeeeeu16, "t" and
\* [true, false, false, false, false, false, false, false]
CoderObjects ==
    {[ty |-> "u16", v |-> <<255, 255>>], [ty |-> "u16", v |-> <<238, 238>>],
     [ty |-> "String", v |-> <<116>>],
     [ty |-> "[bool; 8]", v |-> [t \in 1..8 |-> t = 1]]}

\* the buffers a Coder is made from with with_buffer / from
WithBuffers == {<<255, 255, 238, 238>>}

\* object.encode_to_buf(&mut self.buffer)
encode_to_buf_object(object, b) ==
    IF object.ty = "u16" THEN b \o object.v
    ELSE IF object.ty = "String" THEN encode_to_buf_str(object.v, b)
    ELSE encode_to_buf_bool_array(object.v, b)

\* T::decode_from_buf(slice)
decode_from_buf_object(ty, feature, slice) ==
    IF ty = "u16" THEN Returned(decode_from_buf_uint(2, slice))
    ELSE IF ty = "String" THEN decode_from_buf_String(slice)
    ELSE decode_from_buf_bool_array(feature, slice)

\* a variant of offset_from that measures from the end of the buffer
offset_from_end(b, buffer) == Len(b)

\* b.as_ptr_range().start.offset_from(self.buffer.as_ptr()) as usize, for a
\* slice b that ends where the buffer ends
offset_from(b, buffer) == Len(buffer) - Len(b)

\* a variant of decode_next_object that moves to the end of the buffer when
\* the decode fails
decode_next_object_skips(ty, feature, buffer, index) ==
    LET r == decode_from_buf_object(ty, feature, SubSeq(buffer, index + 1, Len(buffer)))
    IN  IF r.panic THEN [panic |-> TRUE, index |-> index, ret |-> None]
        ELSE IF ~IsSome(r.res) THEN [panic |-> FALSE, index |-> Len(buffer), ret |-> None]
        ELSE [panic |-> FALSE, index |-> offset_from(Unwrap(r.res).rest, buffer),
              ret |-> Some([ty |-> ty, v |-> Unwrap(r.res).value])]

\* Coder::decode_next_object::<T>: the new decode_index and the value returned
decode_next_object(ty, feature, buffer, index) ==
    LET r == decode_from_buf_object(ty, feature, SubSeq(buffer, index + 1, Len(buffer)))
    IN  IF r.panic THEN [panic |-> TRUE, index |-> index, ret |-> None]
        ELSE IF ~IsSome(r.res) THEN [panic |-> FALSE, index |-> index, ret |-> None]   \* ?
        ELSE [panic |-> FALSE, index |-> offset_from(Unwrap(r.res).rest, buffer),
              ret |-> Some([ty |-> ty, v |-> Unwrap(r.res).value])]

\* Coder::new() or Coder::with_buffer(buffer)
InitCoder ==
    /\ EmptyUnion
    /\ EmptyStruct
    /\ EmptySteps /\ EmptyUnionRun /\ EmptyAttr /\ EmptyChain
    /\ prim_value = None
    /\ bool_arr_optimization \in BOOLEAN
    /\ panicked = FALSE
    /\ pc = "coder"
    /\ coder_buffer \in {<<>>} \cup WithBuffers
    /\ decode_index = 0
    /\ encoded = <<>>
    /\ decoded = <<>>
    /\ last_call = [op |-> IF coder_buffer = <<>> THEN "new" ELSE "with_buffer",
                    ret |-> None]
    /\ n_calls = 0
    /\ fifo_pre = (coder_buffer = <<>>)

\* coder.encode(&object) / coder.encode_object(object)
CoderEncode ==
    /\ pc = "coder" /\ ~panicked /\ n_calls < MaxCalls
    /\ \E object \in CoderObjects :
          /\ coder_buffer' = encode_to_buf_object(object, coder_buffer)
          /\ encoded' = Append(encoded, object)
    /\ last_call' = [op |-> "encode", ret |-> None]
    /\ n_calls' = n_calls + 1
    /\ UNCHANGED <<enum_vars, struct_kind, struct_fields, struct_attr, enc_struct,
                   dec_struct, self_value, buf, enc_calls, dec_input, dec_result, dec_calls,
                   pc, step_vars, union_run_vars, prim_vars, attr_vars, chain_vars,
                   decode_index, decoded, fifo_pre>>

\* coder.decode_next_object::<T>(); the call is the one for the object after
\* those already decoded
DecodeNextObject ==
    /\ pc = "coder" /\ ~panicked /\ n_calls < MaxCalls
    /\ \E ty \in CoderTypes :
          LET r == decode_next_object(ty, bool_arr_optimization, coder_buffer, decode_index)
              k == Len(decoded) + 1
          IN  /\ panicked' = r.panic
              /\ decode_index' = r.index
              /\ decoded' = IF IsSome(r.ret) THEN Append(decoded, Unwrap(r.ret)) ELSE decoded
              /\ last_call' = [op |-> IF r.panic THEN "decode_panic" ELSE "decode",
                               ret |-> r.ret]
              /\ fifo_pre' = (fifo_pre /\ (k <= Len(encoded) => encoded[k].ty = ty))
    /\ n_calls' = n_calls + 1
    /\ UNCHANGED <<enum_vars, struct_kind, struct_fields, struct_attr, enc_struct,
                   dec_struct, self_value, buf, enc_calls, dec_input, dec_result, dec_calls,
                   pc, step_vars, union_run_vars, prim_value, bool_arr_optimization,
                   attr_vars, chain_vars, coder_buffer, encoded>>

\* coder.reset_decode_index()
ResetDecodeIndex ==
    /\ pc = "coder" /\ ~panicked /\ n_calls < MaxCalls
    /\ decode_index' = 0
    /\ fifo_pre' = FALSE
    /\ last_call' = [op |-> "reset_decode_index", ret |-> None]
    /\ n_calls' = n_calls + 1
    /\ UNCHANGED <<enum_vars, struct_kind, struct_fields, struct_attr, enc_struct,
                   dec_struct, self_value, buf, enc_calls, dec_input, dec_result, dec_calls,
                   pc, step_vars, union_run_vars, prim_vars, attr_vars, chain_vars,
                   coder_buffer, encoded, decoded>>

NextCoder == CoderEncode \/ DecodeNextObject \/ ResetDecodeIndex

SpecCoder == InitCoder /\ [][NextCoder]_vars

(***************************************************************************)
(* Properties of the tag assignment.                                       *)
(***************************************************************************)
TagWidth == tag_bytes(enum_attr)
ZeroTag(w) == [i \in 1..w |-> 0]
\* t + 1 in the unsigned arithmetic of Len(t) bytes
IncTag(t) ==
    LET full == \A j \in 1..Len(t) : t[j] = 255
        k == IF full THEN Len(t) + 1
             ELSE CHOOSE j \in 1..Len(t) : t[j] # 255 /\ \A l \in 1..(j - 1) : t[l] = 255
    IN  [i \in 1..Len(t) |-> IF i < k THEN 0 ELSE IF i = k THEN t[i] + 1 ELSE t[i]]
NeedsInference(v) == ~IsSome(v.value) /\ ~IsSome(v.discriminant)
Derivations == {enc_enum, dec_enum}
Succeeded(r) == r.err = NoErr
Finished(r) == r # Pending

\* C2: a derivation that succeeds gives the N variants N pairwise-distinct
\* tags at the configured width (otherwise it fails); no variant is dropped
\* or made unreachable.
C2_TagsDistinct ==
    \A r \in Derivations : Succeeded(r) =>
        /\ Len(r.tags) = Len(variants)
        /\ \A i, j \in 1..Len(r.tags) : i # j => r.tags[i] # r.tags[j]

\* C3: the tag of a variant is its explicit value if one is given, otherwise
\* its discriminant, which must be an integer literal; a variant with neither
\* needs inference to be enabled; a variant with none of the three sources
\* fails resolution with "No discriminant or value provided".
C3_TagSourcePrecedence ==
    \A r \in Derivations : Finished(r) =>
        /\ Succeeded(r) =>
              /\ Len(r.tags) = Len(variants)
              /\ \A i \in 1..Len(variants) :
                    LET v == variants[i] IN
                    /\ IsSome(v.value) => r.tags[i] = SubSeq(Unwrap(v.value), 1, TagWidth)
                    /\ ~IsSome(v.value) /\ IsSome(v.discriminant) =>
                          /\ Unwrap(v.discriminant).kind = "int"
                          /\ r.tags[i] = SubSeq(Unwrap(v.discriminant).v, 1, TagWidth)
                    /\ NeedsInference(v) => enum_attr.inferred_values
        /\ (r.err = ErrNoValue) =>
              \E i \in 1..Len(variants) :
                  NeedsInference(variants[i]) /\ ~enum_attr.inferred_values
        /\ (Len(variants) > 0 /\ NeedsInference(variants[1]) /\ ~enum_attr.inferred_values)
              => r.err = ErrNoValue
        /\ (Len(variants) > 0 /\ ~IsSome(variants[1].value)
               /\ IsSome(variants[1].discriminant)
               /\ Unwrap(variants[1].discriminant).kind # "int")
              => r.err = ErrUnsupported

C3_Witness ==
    /\ Succeeded(enc_enum) /\ Succeeded(dec_enum)
    /\ \E i \in 1..Len(variants) :
          IsSome(variants[i].value) /\ IsSome(variants[i].discriminant)
    /\ \E i \in 1..Len(variants) :
          ~IsSome(variants[i].value) /\ IsSome(variants[i].discriminant)

\* C4: with inferred tags enabled, a variant with neither explicit value nor
\* discriminant gets tag 0 if it is the first variant and otherwise the tag of
\* the preceding variant plus one; [A, B(value = 10), C] resolves to 0, 10, 11.
ExampleInferred ==
    <<[value |-> None, discriminant |-> None],
      [value |-> Some(U128Small(10, 0)), discriminant |-> None],
      [value |-> None, discriminant |-> None]>>

C4_InferenceContinuity ==
    \A r \in Derivations : (Succeeded(r) /\ enum_attr.inferred_values) =>
        /\ \A i \in 1..Len(variants) : NeedsInference(variants[i]) =>
              r.tags[i] = IF i = 1 THEN ZeroTag(TagWidth) ELSE IncTag(r.tags[i - 1])
        /\ (variants = ExampleInferred /\ TagWidth = 2) =>
              r.tags = <<<<0, 0>>, <<10, 0>>, <<11, 0>>>>

C4_Witness ==
    /\ variants = ExampleInferred
    /\ enum_attr.inferred_values
    /\ enc_enum.tags = <<<<0, 0>>, <<10, 0>>, <<11, 0>>>>
    /\ dec_enum.tags = <<<<0, 0>>, <<10, 0>>, <<11, 0>>>>

\* C5 (as claimed): with inferred tags enabled, the first variant in
\* declaration order that needs inference is assigned tag 0, also when it is
\* preceded by variants with explicit values or discriminants.
FirstInferred(i) ==
    /\ i \in 1..Len(variants)
    /\ NeedsInference(variants[i])
    /\ \A j \in 1..(i - 1) : ~NeedsInference(variants[j])

C5_FirstInferredIsZero ==
    \A r \in Derivations : (Succeeded(r) /\ enum_attr.inferred_values) =>
        \A i \in 1..Len(variants) : FirstInferred(i) => r.tags[i] = ZeroTag(TagWidth)

\* C5 (amended): the first variant needing inference is assigned tag 0 when
\* it is the first variant of the union; when it is preceded by other
\* variants it is assigned the preceding variant's tag plus one, which is
\* not 0 unless that tag is the maximum of the width.
C5_FirstInferredFollowsPredecessor ==
    \A r \in Derivations : (Succeeded(r) /\ enum_attr.inferred_values) =>
        \A i \in 1..Len(variants) : FirstInferred(i) =>
            /\ i = 1 => r.tags[i] = ZeroTag(TagWidth)
            /\ i > 1 => /\ r.tags[i] = IncTag(r.tags[i - 1])
                        /\ (r.tags[i] = ZeroTag(TagWidth)) =
                              (\A b \in 1..TagWidth : r.tags[i - 1][b] = 255)

C5_Witness ==
    /\ Succeeded(enc_enum) /\ Succeeded(dec_enum)
    /\ enum_attr.inferred_values
    /\ \E i \in 2..Len(variants) : FirstInferred(i) /\ enc_enum.tags[i] # ZeroTag(TagWidth)

\* C6: a variant whose resolved tag exceeds the maximum of the configured
\* width (16 bits when no encoding_type is given) makes resolution fail, in
\* both derivations; the value is never silently truncated.
C6_WidthChecked ==
    \A r \in Derivations : Finished(r) =>
        ((\E i \in 1..Len(variants) :
             /\ IsSome(variants[i].value)
             /\ \E b \in (TagWidth + 1)..16 : Unwrap(variants[i].value)[b] # 0)
         => ~Succeeded(r))

(***************************************************************************)
(* Properties of the field orderer.                                        *)
(***************************************************************************)
HasOrderNo(i) == IsSome(struct_fields[i].order_no)
OrderNoOf(i) == Unwrap(struct_fields[i].order_no)
NotIgnored == {i \in 1..Len(struct_fields) : ~struct_fields[i].ignore}

\* o lists the fields of S once each: first those with an order number, in
\* ascending order of the number, then those without, in declaration order
OrderedByOrderNo(o, S) ==
    /\ {o[p] : p \in 1..Len(o)} = S
    /\ Len(o) = Cardinality(S)
    /\ \A p, q \in 1..Len(o) : p < q =>
          /\ HasOrderNo(o[q]) => HasOrderNo(o[p]) /\ OrderNoOf(o[p]) <= OrderNoOf(o[q])
          /\ (~HasOrderNo(o[p]) /\ ~HasOrderNo(o[q])) => o[p] < o[q]

ExampleOrderNos == <<None, Some(2), Some(0), None>>

\* C7: the serialization order of a record is its fields with an explicit
\* order number in ascending order of the number, followed by the fields
\* without one in declaration order; [f0, f1(2), f2(0), f3] gives f2, f1, f0, f3.
C7_FieldOrder ==
    IsSome(enc_struct) =>
        /\ OrderedByOrderNo(Unwrap(enc_struct).body, NotIgnored)
        /\ (/\ Len(struct_fields) = 4
            /\ \A i \in 1..4 : /\ struct_fields[i].order_no = ExampleOrderNos[i]
                                /\ ~struct_fields[i].ignore)
           => Unwrap(enc_struct).body = <<3, 2, 1, 4>>

C7_Witness ==
    /\ IsSome(enc_struct)
    /\ Len(struct_fields) = 4
    /\ \A i \in 1..4 : /\ struct_fields[i].order_no = ExampleOrderNos[i]
                        /\ ~struct_fields[i].ignore
    /\ Unwrap(enc_struct).body = <<3, 2, 1, 4>>

(***************************************************************************)
(* Properties of the generated encode_to_buf and decode_from_buf.          *)
(***************************************************************************)
HooksOf(a) == a.hooks
NoHooksConfigured == HooksOf(struct_attr) = NoHooks
NoIgnoredField == \A i \in 1..Len(struct_fields) : ~struct_fields[i].ignore
FieldSize(i) == IF struct_fields[i].ty = "u8" THEN 1 ELSE 2
RECURSIVE SumSizes(_)
SumSizes(S) == IF S = {} THEN 0
               ELSE LET i == CHOOSE x \in S : TRUE IN FieldSize(i) + SumSizes(S \ {i})

\* C1: without hooks, decoding the encoding of a value v succeeds and returns
\* v with an empty remainder (stated for the types without an ignored field,
\* whose decoded value is the default by design).
C1_RoundTrip ==
    (pc = "decoded" /\ NoHooksConfigured /\ NoIgnoredField) =>
        dec_result = Some([value |-> self_value, rest |-> <<>>])

\* C8: an ignored field contributes no bytes to the encoding; on decode it
\* consumes no bytes and is set to the default of its type whatever its
\* original value; the other fields are unaffected.
C8_IgnoreAsymmetry ==
    (pc = "decoded" /\ NoHooksConfigured /\ ~NoIgnoredField) =>
        /\ Len(buf) = SumSizes(NotIgnored)
        /\ IsSome(dec_result)
        /\ Unwrap(dec_result).rest = <<>>
        /\ \A i \in 1..Len(struct_fields) :
              Unwrap(dec_result).value[i] =
                  IF struct_fields[i].ignore THEN 0 ELSE self_value[i]

\* C9: the generated encode applies the pre-encode hook to the value, writes
\* the body from the hook's result, then calls the post-encode hook on the
\* buffer; a hook that is not configured is the identity.
C9_EncodeHookOrder ==
    pc \in {"encoded", "decoded"} =>
        LET h == HooksOf(struct_attr)
            data == IF h.pre_enc_func THEN change_example2(self_value) ELSE self_value
            order == IF struct_kind = "named"
                     THEN encoding_generate_named_struct_fields_code(struct_fields)
                     ELSE encoding_generate_unnamed_struct_fields_code(struct_fields)
            body == encode_body(order, 1, struct_fields, data, <<>>)
        IN  /\ buf = IF h.post_enc_func THEN append_data_e2(body) ELSE body
            /\ enc_calls = (IF h.pre_enc_func THEN <<"pre_enc_func">> ELSE <<>>)
                            \o <<"body">>
                            \o (IF h.post_enc_func THEN <<"post_enc_func">> ELSE <<>>)

\* the analogue of Example2 { a (order_no = 1), b (order_no = 0) } with its
\* four hooks
Example2Like ==
    /\ struct_kind = "named"
    /\ Len(struct_fields) = 2
    /\ struct_fields[1] = [order_no |-> Some(1), ignore |-> FALSE, ty |-> "u8"]
    /\ struct_fields[2] = [order_no |-> Some(0), ignore |-> FALSE, ty |-> "u8"]
    /\ HooksOf(struct_attr) = [pre_enc_func |-> TRUE, post_enc_func |-> TRUE,
                               pre_dec_func |-> TRUE, post_dec_func |-> TRUE]
    /\ self_value = <<1, 2>>

C9_Witness ==
    /\ pc = "encoded"
    /\ Example2Like
    /\ buf = <<2, 3, 104>>
    /\ enc_calls = <<"pre_enc_func", "body", "post_enc_func">>

\* C10: the generated decode applies the pre-decode hook to the input, reads
\* the body from the hook's output, then passes (value, remaining bytes) to
\* the post-decode hook and returns its result; without a post hook the
\* decoded value and remainder are returned unchanged.
C10_DecodeHookOrder ==
    pc = "decoded" =>
        LET h == HooksOf(struct_attr)
            code == IF struct_kind = "named"
                    THEN decoding_generate_named_struct_fields_code(struct_fields)
                    ELSE decoding_generate_unnamed_struct_fields_code(struct_fields)
            n == Len(struct_fields)
            input == IF h.pre_dec_func THEN undo_append_data_e2(dec_input)
                     ELSE Some(dec_input)
            read == IF IsSome(input)
                    THEN decode_body(code.stmts, 1, [i \in 1..n |-> 0], Unwrap(input))
                    ELSE None
            value == [k \in 1..n |-> Unwrap(read).env[code.ctor[k]]]
        IN  /\ dec_input = buf
            /\ ~IsSome(read) => dec_result = None
            /\ IsSome(read) =>
                  /\ dec_result = IF h.post_dec_func
                                  THEN undo_change_example2(value, Unwrap(read).rest)
                                  ELSE Some([value |-> value, rest |-> Unwrap(read).rest])
                  /\ dec_calls = (IF h.pre_dec_func THEN <<"pre_dec_func">> ELSE <<>>)
                                  \o <<"body">>
                                  \o (IF h.post_dec_func THEN <<"post_dec_func">> ELSE <<>>)

C10_Witness ==
    /\ pc = "decoded"
    /\ Example2Like
    /\ dec_input = <<2, 3, 104>>
    /\ dec_result = Some([value |-> <<4, 2>>, rest |-> <<>>])
    /\ dec_calls = <<"pre_dec_func", "body", "post_dec_func">>

(***************************************************************************)
(* Properties of the statement-by-statement decode.                        *)
(***************************************************************************)
Failed(c) == ~c.ok

\* C11: when the pre-decode hook, a field decoder or the post-decode hook
\* returns no value, decode_from_buf returns None (no partially built value)
\* and no later statement, field read or hook, runs after the failing one:
\* only the last executed call can be a failed one, and after it the function
\* has returned None; a returned value comes from a run without failed call
\* and agrees with decode_from_buf.
C11_FailurePropagation ==
    /\ \A k \in 1..Len(dec_calls) : Failed(dec_calls[k]) =>
          /\ k = Len(dec_calls)
          /\ pc = "none"
          /\ dec_result = None
    /\ pc = "none" => /\ dec_result = None
                      /\ dec_calls # <<>>
                      /\ Failed(dec_calls[Len(dec_calls)])
    /\ IsSome(dec_result) => /\ pc = "some"
                             /\ \A k \in 1..Len(dec_calls) : dec_calls[k].ok
    /\ (pc \in {"none", "some"} /\ post_dec_fn = "undo_change_example2") =>
          dec_result = decode_from_buf(step_code, dec_input).result

\* a run in which the pre-decode hook and the two field reads succeeded and
\* the post-decode hook returned no value
C11_Witness ==
    /\ pc = "none"
    /\ dec_result = None
    /\ Len(dec_calls) = 4
    /\ dec_calls[1].op = "pre_dec_func"
    /\ dec_calls[2].op = "decode_from_buf"
    /\ dec_calls[4].op = "post_dec_func"
    /\ Failed(dec_calls[4])
    /\ IsSome(cur_decoded_res)

(***************************************************************************)
(* Properties of the code generated for an enum.                           *)
(***************************************************************************)
Encoded == IsSome(union_value)
EncodedVariant == Unwrap(union_value).variant
EncodedFields == Unwrap(union_value).fields

\* the little-endian bytes of the payload values, in declaration order
RECURSIVE PayloadBytes(_, _, _)
PayloadBytes(pl, vals, k) ==
    IF k > Len(pl) THEN <<>>
    ELSE (IF pl[k].ty = "u8" THEN <<vals[k]>> ELSE <<vals[k] % 256, vals[k] \div 256>>)
         \o PayloadBytes(pl, vals, k + 1)

\* C12: encoding a union value writes the variant's tag, little-endian at the
\* configured width (2 bytes without encoding_type), then the encodings of
\* the variant's payload fields in declaration order, and nothing else; an
\* order number on a payload field does not reorder it.
C12_UnionWireFormat ==
    Encoded =>
        LET i == EncodedVariant
            tag == SubSeq(buf, 1, TagWidth)
        IN  /\ Len(buf) >= TagWidth
            /\ TagWidth = (IF IsSome(enum_attr.encoding_type)
                           THEN type_bytes(Unwrap(enum_attr.encoding_type)) ELSE 2)
            /\ tag = enc_enum.tags[i]
            /\ IsSome(variants[i].value) =>
                  /\ tag = SubSeq(Unwrap(variants[i].value), 1, TagWidth)
                  /\ \A b \in (TagWidth + 1)..16 : Unwrap(variants[i].value)[b] = 0
            /\ SubSeq(buf, TagWidth + 1, Len(buf)) = PayloadBytes(payloads[i], EncodedFields, 1)

\* the analogue of Example3::A4(100, 200): value = 10, payload (u16, u8 with
\* order_no = 0) = (258, 1), default width
C12_Witness ==
    /\ Encoded
    /\ ~IsSome(enum_attr.encoding_type)
    /\ variants[EncodedVariant].value = Some(U128Small(10, 0))
    /\ Len(payloads[EncodedVariant]) = 2
    /\ EncodedFields = <<258, 1>>
    /\ buf = <<10, 0, 2, 1, 1>>

\* C13: decoding a union returns no value, without panicking, when the slice
\* is shorter than the tag width (a 2-byte slice with a 32-bit tag) and when
\* the tag read is the tag of no variant; a union without variants never
\* decodes successfully.
C13_UnionDecodeFailure ==
    pc = "decoded" =>
        /\ ~panicked
        /\ Len(dec_input) < TagWidth => dec_result = None
        /\ (/\ Len(dec_input) >= TagWidth
            /\ \A i \in 1..Len(dec_enum.tags) : dec_enum.tags[i] # SubSeq(dec_input, 1, TagWidth))
           => dec_result = None
        /\ Len(variants) = 0 => dec_result = None

\* a 2-byte slice decoded by an enum with a 32-bit tag and a variant
C13_Witness ==
    /\ pc = "decoded"
    /\ enum_attr.encoding_type = Some("U32")
    /\ Len(variants) > 0
    /\ Len(dec_input) = 2
    /\ dec_result = None

(***************************************************************************)
(* Properties of the wire primitives.                                      *)
(***************************************************************************)
IsString == IsSome(prim_value) /\ Unwrap(prim_value).ty = "String"
IsBoolArray == IsSome(prim_value) /\ Unwrap(prim_value).ty = "[bool; 8]"
PrimV == Unwrap(prim_value).v
WasEncoded == pc \in {"encoded", "decoded"}
Test == <<116, 101, 115, 116>>

\* the length prefix of a slice, when it has one that is at most 255
HasShortPrefix(b) == Len(b) >= 8 /\ \A i \in 2..8 : b[i] = 0
PrefixLen(b) == b[1]
AfterPrefix(b) == SubSeq(b, 9, Len(b))

\* C14: a string encodes as its byte count as an 8-byte little-endian integer
\* followed by exactly its UTF-8 bytes ("test" gives [4,0,0,0,0,0,0,0,'t','e',
\* 's','t']); decoding that encoding yields the string and an empty
\* remainder; decoding fails when the payload bytes are not valid UTF-8.
C14_StringWireFormat ==
    (IsString /\ WasEncoded) =>
        /\ buf = <<Len(PrimV), 0, 0, 0, 0, 0, 0, 0>> \o PrimV
        /\ PrimV = Test => buf = <<4, 0, 0, 0, 0, 0, 0, 0, 116, 101, 115, 116>>
        /\ (pc = "decoded" /\ dec_input = buf) =>
              /\ ~panicked
              /\ dec_result = Some([value |-> PrimV, rest |-> <<>>])
        /\ (/\ pc = "decoded"
            /\ HasShortPrefix(dec_input)
            /\ PrefixLen(dec_input) <= Len(AfterPrefix(dec_input))
            /\ ~from_utf8_ok(SubSeq(AfterPrefix(dec_input), 1, PrefixLen(dec_input))))
           => (~panicked /\ dec_result = None)

\* a string with a two-byte character, encoded and decoded again
C14_Witness ==
    /\ IsString
    /\ pc = "decoded"
    /\ PrimV = <<116, 195, 169>>
    /\ buf = <<3, 0, 0, 0, 0, 0, 0, 0, 116, 195, 169>>
    /\ dec_input = buf
    /\ dec_result = Some([value |-> <<116, 195, 169>>, rest |-> <<>>])

\* C15: decoding a String from a slice whose 8-byte length prefix is larger
\* than the number of bytes that remain after the prefix returns no value;
\* it never panics.
C15_NoPanicOnShortInput ==
    (IsString /\ pc = "decoded") =>
        /\ ~panicked
        /\ (/\ Len(dec_input) >= 8
            /\ le_gt(SubSeq(dec_input, 1, 8), usize_to_le_bytes(Len(AfterPrefix(dec_input)))))
           => dec_result = None

\* the value of the byte an array is packed into: the first element is the
\* most significant bit
MsbFirst(arr) ==
    128 * (IF arr[1] THEN 1 ELSE 0) + 64 * (IF arr[2] THEN 1 ELSE 0)
    + 32 * (IF arr[3] THEN 1 ELSE 0) + 16 * (IF arr[4] THEN 1 ELSE 0)
    + 8 * (IF arr[5] THEN 1 ELSE 0) + 4 * (IF arr[6] THEN 1 ELSE 0)
    + 2 * (IF arr[7] THEN 1 ELSE 0) + (IF arr[8] THEN 1 ELSE 0)

Alternating == <<TRUE, FALSE, TRUE, FALSE, TRUE, FALSE, TRUE, FALSE>>
Pairs == <<TRUE, TRUE, FALSE, FALSE, TRUE, TRUE, FALSE, FALSE>>

\* C16: an 8-element boolean array encodes to exactly one byte whose most
\* significant bit is the first element and whose least significant bit is
\* the last; [t,f,t,f,t,f,t,f] gives 0b10101010, [t,t,f,f,t,t,f,f] 0b11001100.
C16_BoolArrayPacking ==
    (IsBoolArray /\ WasEncoded) =>
        /\ buf = <<MsbFirst(PrimV)>>
        /\ PrimV = Alternating => buf = <<170>>
        /\ PrimV = Pairs => buf = <<204>>

C16_Witness ==
    /\ IsBoolArray
    /\ pc = "encoded"
    /\ PrimV = Alternating
    /\ buf = <<170>>

\* C17: decoding the byte produced by encoding an 8-element boolean array b
\* as a [bool; 8] yields b again, element for element.
C17_BoolArrayRoundTrip ==
    (IsBoolArray /\ pc = "decoded") =>
        /\ ~panicked
        /\ dec_result = Some([value |-> PrimV, rest |-> <<>>])

(***************************************************************************)
(* Properties of the attribute resolution.                                 *)
(***************************************************************************)
Resolved == IsSome(attr_result) /\ Unwrap(attr_result).err = NoErr
ResolvedAttr == Unwrap(attr_result).attr

\* what block i alone sets
BlockAttr(i) ==
    CASE attr_kind = "type" -> attr_try_from(attr_blocks[i]).attr
      [] attr_kind = "field" -> field_try_from(attr_blocks[i]).attr
      [] attr_kind = "variant" -> variant_try_from(attr_blocks[i]).attr

EncodingTypeOf(a) ==
    IF IsSome(a.enum_options) THEN Unwrap(a.enum_options).encoding_type ELSE None
InferredValuesOf(a) ==
    IF IsSome(a.enum_options) THEN Unwrap(a.enum_options).inferred_values ELSE FALSE

\* the value of Setting in the last block that sets it, None without one
LastSet(Setting(_)) ==
    LET S == {i \in 1..Len(attr_blocks) : IsSome(Setting(BlockAttr(i)))}
    IN  IF S = {} THEN None
        ELSE Setting(BlockAttr(CHOOSE i \in S : \A j \in S : j <= i))

AnySet(Flag(_)) == \E i \in 1..Len(attr_blocks) : Flag(BlockAttr(i))

PreEncFunc(a) == a.pre_enc_func
PostEncFunc(a) == a.post_enc_func
PreDecFunc_(a) == a.pre_dec_func
PostDecFunc_(a) == a.post_dec_func
OrderNo(a) == a.order_no
Ignore(a) == a.ignore
Value(a) == a.value

\* C18: merging the blocks of one type, field or variant left to right gives
\* every optional setting (hook names, tag width, explicit tag value, order
\* number) the value of the last block that sets it, and every boolean
\* (inferred tags, ignore) the disjunction of the blocks; without blocks all
\* settings are absent or false.
C18_AttributeMerge ==
    Resolved =>
        /\ attr_kind = "type" =>
              /\ ResolvedAttr.pre_enc_func = LastSet(PreEncFunc)
              /\ ResolvedAttr.post_enc_func = LastSet(PostEncFunc)
              /\ ResolvedAttr.pre_dec_func = LastSet(PreDecFunc_)
              /\ ResolvedAttr.post_dec_func = LastSet(PostDecFunc_)
              /\ EncodingTypeOf(ResolvedAttr) = LastSet(EncodingTypeOf)
              /\ InferredValuesOf(ResolvedAttr) = AnySet(InferredValuesOf)
              /\ attr_blocks = <<>> => ResolvedAttr = ByteCodingAttr_default
        /\ attr_kind = "field" =>
              /\ ResolvedAttr.order_no = LastSet(OrderNo)
              /\ ResolvedAttr.ignore = AnySet(Ignore)
              /\ attr_blocks = <<>> => ResolvedAttr = [order_no |-> None, ignore |-> FALSE]
        /\ attr_kind = "variant" =>
              /\ ResolvedAttr.value = LastSet(Value)
              /\ attr_blocks = <<>> => ResolvedAttr = [value |-> None]

\* two blocks that set the pre-encode hook to different names
C18_Witness ==
    /\ Resolved
    /\ attr_kind = "type"
    /\ attr_blocks = <<<<TypeEntries.pre_f>>, <<TypeEntries.pre_g, TypeEntries.post_h>>>>
    /\ ResolvedAttr.pre_enc_func = Some("g")
    /\ ResolvedAttr.post_dec_func = Some("h")

\* an entry that names a union-only option
UnionOnly(e) ==
    \/ e.form = "name_value" /\ e.path = <<"encoding_type">>
    \/ e.form = "path" /\ e.path = <<"inferred_values">>

HasUnionOnlyOption ==
    \E i \in 1..Len(attr_blocks) : \E k \in 1..Len(attr_blocks[i]) :
        UnionOnly(attr_blocks[i][k])

\* C19: a union-only option (encoding_type or inferred_values) in any block
\* of a record makes the resolution of the record fail, for the encode and
\* for the decode derivation; no codec is produced.
C19_UnionOptionOnRecord ==
    (attr_kind = "type" /\ data_kind = "struct" /\ HasUnionOnlyOption) =>
        /\ enc_resolved # "pending" => enc_resolved # "ok"
        /\ dec_resolved # "pending" => dec_resolved # "ok"

\* a record whose second block enables inferred tags
C19_Witness ==
    /\ attr_kind = "type"
    /\ data_kind = "struct"
    /\ attr_blocks = <<<<TypeEntries.pre_f>>, <<TypeEntries.inferred>>>>
    /\ enc_resolved = ErrEnumArgument
    /\ dec_resolved = ErrEnumArgument

\* the keys of the attribute kinds and the type of their literal
NameValueKeys(kind) ==
    CASE kind = "type" -> {"pre_enc_func", "post_enc_func", "pre_dec_func",
                           "post_dec_func", "encoding_type"}
      [] kind = "field" -> {"order_no"}
      [] kind = "variant" -> {"value"}
PathKeys(kind) ==
    CASE kind = "type" -> {"inferred_values"}
      [] kind = "field" -> {"ignore"}
      [] kind = "variant" -> {}
LitKind(kind) == IF kind = "type" THEN "str" ELSE "int"

\* the entries the attribute kind accepts: a known key of one segment, with
\* a literal of the right type
WellFormed(e, kind) ==
    \/ /\ e.form = "name_value"
       /\ Len(e.path) = 1 /\ e.path[1] \in NameValueKeys(kind)
       /\ e.lit.kind = LitKind(kind)
    \/ /\ e.form = "path"
       /\ Len(e.path) = 1 /\ e.path[1] \in PathKeys(kind)

HasOtherEntry ==
    \E i \in 1..Len(attr_blocks) : \E k \in 1..Len(attr_blocks[i]) :
        ~WellFormed(attr_blocks[i][k], attr_kind)

\* C20: an entry on a type, record field or variant whose key is not exactly
\* one of the known single-segment keys of its kind (a path of several
\* segments whose first segment is a known key included), or whose literal
\* has the wrong type, makes the resolution fail.
C20_UnknownKeysRejected ==
    HasOtherEntry =>
        /\ IsSome(attr_result) => Unwrap(attr_result).err # NoErr
        /\ enc_resolved # "ok"
        /\ dec_resolved # "ok"

(***************************************************************************)
(* Further properties of the tag assignment.                               *)
(***************************************************************************)
WideWidth ==
    IsSome(enum_attr.encoding_type)
    /\ Unwrap(enum_attr.encoding_type) \in {"U32", "U64", "U128"}

FitsWidth(value, w) == \A b \in (w + 1)..16 : value[b] = 0

\* every variant has an explicit value, the values are pairwise distinct
\* and fit the configured width
ExplicitDistinctFitting ==
    /\ \A i \in 1..Len(variants) :
          /\ IsSome(variants[i].value)
          /\ FitsWidth(Unwrap(variants[i].value), TagWidth)
    /\ \A i, j \in 1..Len(variants) : i # j => variants[i].value # variants[j].value

\* C24: with a tag width of 32, 64 or 128 bits, a variant whose tag fits the
\* width but exceeds 65535 is accepted by the Encodable and by the Decodable
\* derivation, and is written and matched at the configured width.
C24_WideTagsAccepted ==
    (/\ WideWidth
     /\ ExplicitDistinctFitting
     /\ \E i \in 1..Len(variants) : ~FitsWidth(Unwrap(variants[i].value), 2))
    => \A r \in Derivations : Finished(r) =>
          /\ Succeeded(r)
          /\ \A i \in 1..Len(variants) :
                r.tags[i] = SubSeq(Unwrap(variants[i].value), 1, TagWidth)

\* the variant resolves to 0 whatever precedes it: an integer discriminant 0
\* without explicit value, or the first variant when it is inferred
ZeroAt(j) ==
    \/ j = 1 /\ NeedsInference(variants[j])
    \/ /\ ~IsSome(variants[j].value) /\ IsSome(variants[j].discriminant)
       /\ Unwrap(variants[j].discriminant).kind = "int"
       /\ Unwrap(variants[j].discriminant).v = U128Small(0, 0)

ValueAt(j) == IF ZeroAt(j) THEN U128Small(0, 0) ELSE Unwrap(variants[j].value)

\* variant i is inferred and follows a variant of tag 2^128 - 1 at a tag
\* width of 128 bits; the variants before that one resolve, to distinct tags
WrapsAt(i) ==
    /\ enum_attr.inferred_values
    /\ enum_attr.encoding_type = Some("U128")
    /\ i \in 2..Len(variants)
    /\ NeedsInference(variants[i])
    /\ variants[i - 1].value = Some(U128Max)
    /\ \A j \in 1..(i - 2) :
          ZeroAt(j) \/ (IsSome(variants[j].value) /\ variants[j].value # Some(U128Max))
    /\ \A j, k \in 1..(i - 2) : j # k => ValueAt(j) # ValueAt(k)

\* C26: with inference enabled, an inferred variant that follows a variant of
\* tag 2^128 - 1 gets candidate 0 (the addition wraps modulo 2^128); when 0
\* is already used by an earlier variant the resolution fails with the
\* duplicate-value diagnostic, otherwise the variant has tag 0.
C26_InferenceWrapAround ==
    \A r \in Derivations : Finished(r) =>
        \A i \in 1..Len(variants) : WrapsAt(i) =>
            IF \E j \in 1..(i - 2) : ZeroAt(j)
            THEN r.err = ErrDuplicate
            ELSE Len(variants) = i => (Succeeded(r) /\ r.tags[i] = ZeroTag(TagWidth))

\* C28: the Encodable derivation fails iff the Decodable derivation fails,
\* and when both succeed every variant is written with the tag, value and
\* width, that the decode matches for it.
C28_TagAgreement ==
    (Finished(enc_enum) /\ Finished(dec_enum)) =>
        /\ Succeeded(enc_enum) <=> Succeeded(dec_enum)
        /\ (Succeeded(enc_enum) /\ Succeeded(dec_enum)) => enc_enum.tags = dec_enum.tags

(***************************************************************************)
(* Further properties of the field orderer.                                *)
(***************************************************************************)
EncOrder == Unwrap(enc_struct).body
DecStmts == Unwrap(dec_struct).body.stmts
DecCtor == Unwrap(dec_struct).body.ctor

\* the variables the `let` statements that decode bind, in statement order
RECURSIVE DecBindsFrom(_)
DecBindsFrom(k) ==
    IF k > Len(DecStmts) THEN <<>>
    ELSE (IF DecStmts[k].ignore THEN <<>> ELSE <<DecStmts[k].bind>>) \o DecBindsFrom(k + 1)
DecBinds == DecBindsFrom(1)

\* the field the constructor initialises from the variable v
FieldOf(v) == CHOOSE f \in 1..Len(DecCtor) : DecCtor[f] = v
\* the fields the decoded values are read for, in the order of the reads
DecReads == [k \in 1..Len(DecBinds) |-> FieldOf(DecBinds[k])]

Occurs(o, i) == \E p \in 1..Len(o) : o[p] = i
Before(o, i, j) == \E p, q \in 1..Len(o) : p < q /\ o[p] = i /\ o[q] = j

\* two fields that are written and declare the same order number
Tied(i, j) ==
    /\ i \in NotIgnored /\ j \in NotIgnored /\ i < j
    /\ HasOrderNo(i) /\ HasOrderNo(j) /\ OrderNoOf(i) = OrderNoOf(j)

C27_FieldOrderAgreement ==
    (IsSome(enc_struct) /\ IsSome(dec_struct)) => EncOrder = DecReads

(***************************************************************************)
(* Properties of the generated code on buffers that hold other bytes.      *)
(***************************************************************************)
\* C22: for a value v of a type without hooks and any bytes x,
\* decode_from_buf(encoded(v) ++ x) returns v with exactly x as the
\* remainder (stated for the types without an ignored field, whose decoded
\* value is the default by design).
C22_Chaining ==
    (pc = "chained" /\ NoHooksConfigured /\ NoIgnoredField) =>
        dec_result = Some([value |-> self_value, rest |-> suffix])

IsPrefix(a, b) == Len(a) <= Len(b) /\ SubSeq(b, 1, Len(a)) = a
PostEncHook == HooksOf(struct_attr).post_enc_func

HandedToHook ==
    IF ~PostEncHook THEN buf
    ELSE IF post_enc_fn = "append_data_e2" THEN SubSeq(buf, 1, Len(buf) - 1)
    ELSE Tail(buf)

C21_CoderFifo ==
    fifo_pre => \A k \in 1..Len(decoded) : k <= Len(encoded) /\ decoded[k] = encoded[k]

CallOf(op) == n_calls' = n_calls + 1 /\ last_call'.op = op

\* C29: a decode_next_object that returns None leaves decode_index and the
\* buffer as they were before the call.
C29_FailedDecodeNoOp ==
    [][(CallOf("decode") /\ last_call'.ret = None) =>
          (decode_index' = decode_index /\ coder_buffer' = coder_buffer)]_vars

\* a decode that failed in the middle of the buffer, bytes remaining
C29_Witness ==
    /\ last_call = [op |-> "decode", ret |-> None]
    /\ decode_index = 2
    /\ coder_buffer = <<255, 255, 238, 238>>
    /\ Len(decoded) = 1

\* C30: decode_index is always between 0 and the length of the buffer; an
\* encode leaves decode_index, a decode leaves the buffer, and decode_index
\* only decreases through reset_decode_index, which sets it to 0.
C30_CursorInvariant ==
    /\ [](0 <= decode_index /\ decode_index <= Len(coder_buffer))
    /\ [][/\ CallOf("encode") => decode_index' = decode_index
          /\ (CallOf("decode") \/ CallOf("decode_panic")) => coder_buffer' = coder_buffer
          /\ decode_index' < decode_index => CallOf("reset_decode_index")
          /\ CallOf("reset_decode_index") => decode_index' = 0]_vars

\* objects were encoded, two of them decoded, and the index was reset
C30_Witness ==
    /\ last_call.op = "reset_decode_index"
    /\ decode_index = 0
    /\ Len(decoded) = 2
    /\ Len(encoded) = 1
    /\ Len(coder_buffer) = 6

====
